---- MODULE Spec2Model ----
(***************************************************************************)
(* Idempotent Stripe event claim / reconciliation engine of the Alveriano  *)
(* platform API: claimStripeEvent, markStripeEventStatus, handleStripeEvent*)
(* (src/src/handlers/stripeEvent.ts) and createPaymentRecord               *)
(* (src/src/payments.ts) over the tables stripe_events, payments and       *)
(* form_submissions (src/unnamed/part_000).                                *)
(*                                                                         *)
(* Every awaited store or HTTP call is one step of an invocation; the code *)
(* that runs between two awaits is folded into the step of the await that  *)
(* precedes it.  A store call that fails leaves the table untouched.       *)
(***************************************************************************)
EXTENDS Integers, Sequences, FiniteSets, TLC

VARIABLES
  journal,      \* table stripe_events: event_id -> row or NoRow
  payments,     \* table payments: set of rows
  submissions,  \* table form_submissions: set of rows
  nextPayId,    \* next generated payments.id
  nextSubId,    \* next generated form_submissions.id
  pc,           \* per invocation: the await it is suspended at
  ev,           \* per invocation: id of the event handed to handleStripeEvent
  claim,        \* per invocation: what claimStripeEvent returned
  err,          \* per invocation: the error caught / thrown
  result,       \* per invocation: the HandleResult returned
  attempt,      \* per invocation: loop index i of postJsonWithRetries
  paymentId,    \* per invocation: paymentRow.id returned by createPaymentRecord
  seen,         \* history: journal status when the invocation started
  delivered,    \* history: successful CRM POSTs per event id
  inserts,      \* history: claims returned with inserted=true per event id
  started,      \* number of deliveries so far
  dcLeft,       \* direct createPaymentRecord calls still to be issued
  dcPc,         \* direct caller: position inside createPaymentRecord
  dcIn,         \* direct caller: its PaymentRecordInput
  dcOut,        \* direct caller: what the call returned / threw
  faults,       \* TRUE while store and notifier calls can fail
  http,         \* per invocation: the answer of handleStripeWebhookHttp
  fcLeft,       \* createFormSubmission calls still to be issued
  fcPc,         \* form caller: position inside createFormSubmission
  fcIn,         \* form caller: its FormSubmissionInput
  fcOut,        \* form caller: what the call returned / threw
  env,          \* process.env: the CRM webhook settings of the deployment
  pfPc,         \* paid-form caller: position inside handleSubmitPaidForm
  pfIn,         \* paid-form caller: its request body
  pfOut,        \* paid-form caller: what the call returned / threw
  intents,      \* Stripe: the PaymentIntents created, each with its idempotency key
  fwCalls,      \* requests made through makeFetch so far
  fwPc,         \* fetch wrapper: position inside the loop
  fwMethod,     \* fetch wrapper: init.method of the request
  fwAttempt,    \* fetch wrapper: the local attempt
  fwSent,       \* history: underlying fetch calls made for the request
  fwOut,        \* fetch wrapper: what it returned / threw
  bootstrapPromise, \* apiHandler: the cached promise of the bootstrap
  secretFetches,    \* history: GetSecretValue calls sent
  bhPc,             \* apiHandler: position of each invocation of handler
  bhCalls           \* invocations of handler so far

vars == <<journal, payments, submissions, nextPayId, nextSubId, pc, ev, claim, err, result,
          attempt, paymentId, seen, delivered, inserts, started, dcLeft, dcPc, dcIn,
          dcOut, faults, http, fcLeft, fcPc, fcIn, fcOut, env, pfPc, pfIn, pfOut,
          intents, fwCalls, fwPc, fwMethod, fwAttempt, fwSent, fwOut,
          bootstrapPromise, secretFetches, bhPc, bhCalls>>

hvars == <<pc, ev, claim, err, result, attempt, paymentId, seen, delivered, inserts,
           started, http>>
dvars == <<dcLeft, dcPc, dcIn, dcOut>>
fvars == <<fcLeft, fcPc, fcIn, fcOut>>
pvars == <<pfPc, pfIn, pfOut, intents>>
wvars == <<fwCalls, fwPc, fwMethod, fwAttempt, fwSent, fwOut>>
bvars == <<bootstrapPromise, secretFetches, bhPc, bhCalls>>
xvars == <<pvars, wvars, bvars>>

----------------------------------------------------------------------------
(* Bounds *)

\* deliveries (first deliveries and redeliveries) in a run
MaxDeliveries == 4
\* direct calls of createPaymentRecord in a run
MaxDirectCalls == 3
\* calls of createFormSubmission in a run
MaxFormCalls == 3
\* deliveries in a run of SpecPayload
MaxPayloadDeliveries == 3
\* deliveries in a run of SpecTenant
MaxTenantDeliveries == 2
\* deliveries in a run of SpecCrash
MaxCrashDeliveries == 4
\* deliveries in a run of SpecNotifier
MaxNotifierDeliveries == 2

\* The invocations of handleStripeEvent that may be in flight at the same time
\* (two Lambda containers); a finished invocation frees its slot.
Invs == {1, 2}

\* whether an awaited store or HTTP call fails for an infrastructure reason
Failures == IF faults THEN BOOLEAN ELSE {FALSE}

NULL == "null"
NoErr == [name |-> "none", message |-> "none"]

----------------------------------------------------------------------------
(* Inbound events (Stripe.Event), already signature-verified *)

EventIds == {"evt_1", "evt_2", "evt_3", "evt_4", "evt_5", "evt_6", "evt_7"}

\* a JSON number: the rational num / den
Num(num, den) == [num |-> num, den |-> den]

\* evt_1: a payment of a paid form; evt_2: a type the handler ignores; evt_3: an
\* unsupported currency; evt_4: an amount that is no integer; evt_5: no id;
\* evt_6: a payment of another site without a form; evt_7: a payment that names
\* a submission no row has
Event(id) ==
  CASE id = "evt_1" ->
         [id |-> "evt_1", type |-> "payment_intent.succeeded", livemode |-> TRUE,
          pi |-> [id |-> "pi_1", amount |-> Num(4000, 1), currency |-> "GBP",
                  form_submission_id |-> "sub_1", site |-> "Resinaro"]]
    [] id = "evt_2" ->
         [id |-> "evt_2", type |-> "charge.refunded", livemode |-> TRUE,
          pi |-> [id |-> "pi_1", amount |-> Num(4000, 1), currency |-> "GBP",
                  form_submission_id |-> "sub_1", site |-> NULL]]
    [] id = "evt_3" ->
         [id |-> "evt_3", type |-> "payment_intent.succeeded", livemode |-> TRUE,
          pi |-> [id |-> "pi_2", amount |-> Num(999, 1), currency |-> "JPY",
                  form_submission_id |-> NULL, site |-> "Resinaro"]]
    [] id = "evt_4" ->
         [id |-> "evt_4", type |-> "payment_intent.succeeded", livemode |-> TRUE,
          pi |-> [id |-> "pi_1", amount |-> Num(8001, 2), currency |-> "GBP",
                  form_submission_id |-> "sub_1", site |-> "Resinaro"]]
    [] id = "evt_6" ->
         [id |-> "evt_6", type |-> "payment_intent.succeeded", livemode |-> TRUE,
          pi |-> [id |-> "pi_3", amount |-> Num(1500, 1), currency |-> "eur",
                  form_submission_id |-> NULL, site |-> "Saltaire_Guide"]]
    [] id = "evt_7" ->
         [id |-> "evt_7", type |-> "payment_intent.succeeded", livemode |-> TRUE,
          pi |-> [id |-> "pi_4", amount |-> Num(4000, 1), currency |-> "GBP",
                  form_submission_id |-> "sub_9", site |-> "Resinaro"]]
    [] OTHER ->
         [id |-> "evt_5", type |-> "payment_intent.succeeded", livemode |-> TRUE,
          pi |-> [id |-> NULL, amount |-> Num(4000, 1), currency |-> "GBP",
                  form_submission_id |-> "sub_1", site |-> "Resinaro"]]

\* the events delivered to the handler in Spec
CoreEvents == {"evt_1", "evt_2", "evt_3"}

\* the payment events delivered in SpecPayload: a valid one and the malformed ones
PayloadEvents == {"evt_1", "evt_3", "evt_4", "evt_5"}

\* the valid payment events delivered in SpecTenant
TenantEvents == {"evt_1", "evt_6", "evt_7"}

\* the events delivered in SpecCrash
CrashEvents == {"evt_1", "evt_2"}

\* form_submissions.id values (uuids) in the order the store generates them
SubIdName(n) == <<"sub_1", "sub_2", "sub_3", "sub_4", "sub_5", "sub_6", "sub_7">>[n]

----------------------------------------------------------------------------
(* Small pure helpers *)

\* String.prototype.toLowerCase on the strings that occur in the model
ToLower(s) ==
  CASE s = "GBP" -> "gbp"
    [] s = "EUR" -> "eur"
    [] s = "JPY" -> "jpy"
    [] s = "Resinaro" -> "resinaro"
    [] s = "Saltaire_Guide" -> "saltaire_guide"
    [] OTHER -> s

\* Number.isInteger on a JSON number
IsInteger(q) == q.num % q.den = 0

\* the value of a JSON number that is an integer
IntOf(q) == q.num \div q.den

\* String.prototype.trim on the strings that occur in the model
Trim(s) ==
  CASE s = " " -> ""
    [] s = " key_0001 " -> "key_0001"
    [] s = " https://db.secret " -> "https://db.secret"
    [] OTHER -> s

\* isNonEmptyString: typeof v === "string" && v.trim().length > 0 (NULL stands
\* for undefined)
isNonEmptyString(v) == v # NULL /\ Trim(v) # ""

\* isCurrency: v === "gbp" || v === "eur" || v === "usd"
isCurrency(v) == v \in {"gbp", "eur", "usd"}

\* errMsg: the message of an Error
errMsg(e) == e.message

Error(msg) == [name |-> "Error", message |-> msg]
PaymentValidationError(msg) == [name |-> "PaymentValidationError", message |-> msg]
PaymentWriteError(msg) == [name |-> "PaymentWriteError", message |-> msg]

\* new Date().toISOString(): some non-null timestamp
nowIso == "ts"

----------------------------------------------------------------------------
(* Table stripe_events: event_id is the primary key.  A key without a row  *)
(* is written as a row whose status is "absent".                           *)

NoRow == [status |-> "absent", type |-> NULL, processed_at |-> NULL, last_error |-> NULL]

NewEventRow(e) ==
  [status |-> "processing", type |-> e.type, processed_at |-> NULL, last_error |-> NULL]

Exists(j, id) == j[id].status # "absent"

\* a table without the primary key: the insert always goes through
InsertEventNoPrimaryKey(j, id, row) ==
  [error |-> NULL, found |-> TRUE, data |-> row, table |-> [j EXCEPT ![id] = row]]

\* insert(...).select("*").maybeSingle(): refused with 23505 when the key exists
InsertEvent(j, id, row) ==
  IF Exists(j, id)
    THEN [error |-> "23505", found |-> FALSE, data |-> NoRow, table |-> j]
    ELSE [error |-> NULL, found |-> TRUE, data |-> row, table |-> [j EXCEPT ![id] = row]]

\* select("*").eq("event_id", id).maybeSingle()
SelectEvent(j, id) ==
  [error |-> NULL, found |-> Exists(j, id), data |-> j[id], table |-> j]

\* update({status, processed_at, last_error}).eq("event_id", id): the row whose
\* event_id matches is rewritten, whatever its current status
UpdateEvent(j, id, status, processedAt, lastError) ==
  IF Exists(j, id)
    THEN LET r == [j[id] EXCEPT !.status = status, !.processed_at = processedAt,
                                !.last_error = lastError]
         IN [error |-> NULL, found |-> TRUE, data |-> r, table |-> [j EXCEPT ![id] = r]]
    ELSE [error |-> NULL, found |-> FALSE, data |-> NoRow, table |-> j]

\* A store call that fails for an infrastructure reason (timeout, 5xx): no effect
StoreFailure(table) == [error |-> "io", found |-> FALSE, data |-> NoRow, table |-> table]

\* isUniqueViolation: code === "23505"
isUniqueViolation(code) == code = "23505"

----------------------------------------------------------------------------
(* rawEvent: a JSON snapshot handed to createPaymentRecord, and clampJson   *)

MAX_RAW_EVENT_BYTES == 12000

\* the number of keys clampJson keeps of an object that is too big
KeptKeys == 12

\* one member of an object: its key and the bytes of its serialisation "key":value
Member(key, bytes) == [key |-> key, bytes |-> bytes]

\* null or undefined
JsonNull == [kind |-> "null", members |-> <<>>]
\* an object JSON.stringify serialises
JsonObject(members) == [kind |-> "object", members |-> members]
\* an object JSON.stringify throws on (a cycle, a BigInt)
JsonUnserializable(members) == [kind |-> "unserializable", members |-> members]

RECURSIVE SumBytes(_)
SumBytes(members) ==
  IF members = <<>> THEN 0 ELSE Head(members).bytes + SumBytes(Tail(members))

\* Buffer.byteLength(JSON.stringify(object), "utf8"): the braces, the members
\* and the commas between them
JsonBytes(members) ==
  2 + SumBytes(members) + (IF Len(members) > 1 THEN Len(members) - 1 ELSE 0)

\* Object.keys(safe).slice(0, 12) and the members under these keys
FirstKeys(members) ==
  SubSeq(members, 1, IF Len(members) < KeptKeys THEN Len(members) ELSE KeptKeys)

KeysOf(members) == [k \in 1..Len(members) |-> members[k].key]

\* what clampJson returns: null, the object as given, the marker
\* { truncated: true, note }, or { truncated: true, bytes, keptKeys, snapshot }
Clamped(kind, bytes, keptKeys, snapshot) ==
  [kind |-> kind, truncated |-> (kind \in {"marker", "cut"}), bytes |-> bytes,
   keptKeys |-> keptKeys, snapshot |-> snapshot]

\* clampJson, lines 109-140
clampJson(obj) ==
  IF obj.kind = "null" THEN Clamped("null", 0, <<>>, <<>>)
  ELSE IF obj.kind = "unserializable" THEN Clamped("marker", 0, <<>>, <<>>)
  ELSE IF JsonBytes(obj.members) <= MAX_RAW_EVENT_BYTES
    THEN Clamped("same", 0, <<>>, obj.members)
  ELSE Clamped("cut", JsonBytes(obj.members), KeysOf(FirstKeys(obj.members)),
               FirstKeys(obj.members))

----------------------------------------------------------------------------
(* Table payments: unique on stripe_payment_intent_id where not null and   *)
(* on stripe_checkout_session_id where not null                            *)

\* no row returned (the columns of SELECT_COLS)
NoPay == [id |-> 0, site |-> NULL, form_submission_id |-> NULL, amount_cents |-> 0,
          currency |-> NULL, stripe_payment_intent_id |-> NULL,
          stripe_checkout_session_id |-> NULL, status |-> NULL]

\* select(SELECT_COLS): the row without raw_event
SelectCols(row) == [f \in DOMAIN NoPay |-> row[f]]

\* payments.id: generated by the store, never 0
PayId(n) == n

OtherColumn(col) ==
  IF col = "stripe_payment_intent_id" THEN "stripe_checkout_session_id"
                                      ELSE "stripe_payment_intent_id"

\* rows of t other than `self` that hold the non-null value v in column col
Clash(t, self, col, v) == {u \in t : u.id # self /\ v # NULL /\ u[col] = v}

\* an upsert on a table whose unique indexes are missing: always inserts
UpsertPaymentNoIndexes(t, n, row, onConflict) ==
  LET new == [row EXCEPT !.id = PayId(n)]
  IN [error |-> NULL, data |-> SelectCols(new), table |-> t \cup {new}, next |-> n + 1]

\* upsert(row, { onConflict }).select(SELECT_COLS).single():
\* INSERT ... ON CONFLICT (onConflict) DO UPDATE SET <every column of row>.
\* The row that holds the same onConflict value is overwritten in place (its id
\* is not part of the payload and stays); a collision on the other unique index
\* is not arbitrated and raises 23505.
UpsertPayment(t, n, row, onConflict) ==
  LET hit == {u \in t : u[onConflict] = row[onConflict]}
      other == OtherColumn(onConflict)
  IN IF hit # {}
       THEN LET old == CHOOSE u \in hit : TRUE
                new == [row EXCEPT !.id = old.id]
            IN IF Clash(t, old.id, other, row[other]) # {}
                 THEN [error |-> "23505", data |-> NoPay, table |-> t, next |-> n]
                 ELSE [error |-> NULL, data |-> SelectCols(new),
                       table |-> (t \ {old}) \cup {new}, next |-> n]
       ELSE IF Clash(t, PayId(n), other, row[other]) # {}
         THEN [error |-> "23505", data |-> NoPay, table |-> t, next |-> n]
         ELSE LET new == [row EXCEPT !.id = PayId(n)]
              IN [error |-> NULL, data |-> SelectCols(new), table |-> t \cup {new},
                  next |-> n + 1]

PayFailure(t, n) == [error |-> "io", data |-> NoPay, table |-> t, next |-> n]

\* select(SELECT_COLS).eq("stripe_checkout_session_id", cs).maybeSingle()
SelectPaymentBySession(t, cs) ==
  LET hit == {u \in t : u.stripe_checkout_session_id = cs}
  IN IF hit = {} THEN [error |-> NULL, found |-> FALSE, data |-> NoPay]
                 ELSE [error |-> NULL, found |-> TRUE,
                       data |-> SelectCols(CHOOSE u \in hit : TRUE)]

\* cleanString(v, max) ?? fallback, on the strings of the model (none is blank
\* or longer than max)
cleanStringOr(v, fallback) == IF v = NULL THEN fallback ELSE v

\* a createPaymentRecord without the checks
ValidatePaymentAcceptsAll(input) == NoErr

\* createPaymentRecord, lines 177-203: the checks made before any store call.
\* NoErr when the input passes.
ValidatePayment(input) ==
  IF ~isCurrency(input.currency)
    THEN [name |-> "ZodError", message |-> "Invalid enum value"]
  ELSE IF ~IsInteger(input.amountCents)
    THEN PaymentValidationError("amountCents must be an integer")
  ELSE IF IntOf(input.amountCents) <= 0
    THEN PaymentValidationError("amountCents must be > 0")
  ELSE IF input.stripePaymentIntentId = NULL /\ input.stripeCheckoutSessionId = NULL
    THEN PaymentValidationError("stripePaymentIntentId or stripeCheckoutSessionId is required")
  ELSE NoErr

\* createPaymentRecord, lines 208-219: the row handed to the upsert
\* (amount_cents is an integer column; the store takes a whole number of cents)
PaymentRowOf(input) ==
  [id |-> 0,
   site |-> cleanStringOr(input.site, "unknown"),
   form_submission_id |-> input.formSubmissionId,
   amount_cents |-> IntOf(input.amountCents),
   raw_event |-> clampJson(input.rawEvent),
   currency |-> ToLower(input.currency),
   stripe_payment_intent_id |-> input.stripePaymentIntentId,
   stripe_checkout_session_id |-> input.stripeCheckoutSessionId,
   status |-> input.status]

\* createPaymentRecord, lines 227-229
OnConflictOf(input) ==
  IF input.stripePaymentIntentId # NULL THEN "stripe_payment_intent_id"
                                        ELSE "stripe_checkout_session_id"

\* createPaymentRecord from the upsert on (lines 231-281).  io: the upsert call
\* fails for an infrastructure reason.  kind "row": the PaymentRow returned;
\* "read_cs": the fallback read by checkout session id follows; "throw": err.
CreatePaymentUpsert(t, n, input, io) ==
  LET res == IF io THEN PayFailure(t, n)
                   ELSE UpsertPayment(t, n, PaymentRowOf(input), OnConflictOf(input))
  IN IF res.error = NULL
       THEN [kind |-> "row", row |-> res.data, err |-> NoErr,
             table |-> res.table, next |-> res.next]
     ELSE IF isUniqueViolation(res.error) /\ input.stripePaymentIntentId # NULL
                                         /\ input.stripeCheckoutSessionId # NULL
       THEN [kind |-> "read_cs", row |-> NoPay, err |-> NoErr,
             table |-> res.table, next |-> res.next]
     ELSE [kind |-> "throw", row |-> NoPay,
           err |-> PaymentWriteError("Failed to write payment record"),
           table |-> res.table, next |-> res.next]

\* createPaymentRecord, lines 246-261 and 280: the fallback read
CreatePaymentReadSession(t, input, io) ==
  LET existing == IF io THEN [error |-> "io", found |-> FALSE, data |-> NoPay]
                        ELSE SelectPaymentBySession(t, input.stripeCheckoutSessionId)
  IN IF existing.error = NULL /\ existing.found
       THEN IF existing.data.stripe_payment_intent_id # NULL
               /\ existing.data.stripe_payment_intent_id # input.stripePaymentIntentId
              THEN [kind |-> "throw", row |-> NoPay,
                    err |-> PaymentWriteError("Stripe identifiers conflict")]
              ELSE [kind |-> "row", row |-> existing.data, err |-> NoErr]
       ELSE [kind |-> "throw", row |-> NoPay,
             err |-> PaymentWriteError("Failed to write payment record")]

----------------------------------------------------------------------------
(* Table form_submissions: unique on (site, form_slug, submission_key)     *)
(* where submission_key is not null                                        *)

NoSub == [id |-> NULL, site |-> NULL, form_slug |-> NULL, submission_key |-> NULL,
          status |-> NULL, payload |-> NULL]

\* the submission created by the paid flow that evt_1's PaymentIntent refers to
PaidSubmission ==
  [id |-> SubIdName(1), site |-> "resinaro", form_slug |-> "visa",
   submission_key |-> "k1", status |-> "pending_payment", payload |-> "p1"]

SameKey(u, row) ==
  /\ u.site = row.site
  /\ u.form_slug = row.form_slug
  /\ u.submission_key = row.submission_key

\* a table without the unique index: the insert always goes through
InsertSubmissionNoIndex(t, n, row) ==
  LET new == [row EXCEPT !.id = SubIdName(n)]
  IN [error |-> NULL, data |-> new, table |-> t \cup {new}, next |-> n + 1]

\* an insert that overwrites the row holding the same key (an upsert)
InsertSubmissionOverwrites(t, n, row) ==
  LET hit == {u \in t : row.submission_key # NULL /\ SameKey(u, row)}
  IN IF hit # {}
       THEN LET old == CHOOSE u \in hit : TRUE
                new == [row EXCEPT !.id = old.id]
            IN [error |-> NULL, data |-> new, table |-> (t \ {old}) \cup {new},
                next |-> n]
       ELSE LET new == [row EXCEPT !.id = SubIdName(n)]
            IN [error |-> NULL, data |-> new, table |-> t \cup {new}, next |-> n + 1]

\* a store that hands out the id of the first row again
InsertSubmissionSameId(t, n, row) ==
  IF row.submission_key # NULL /\ \E u \in t : SameKey(u, row)
    THEN [error |-> "23505", data |-> NoSub, table |-> t, next |-> n]
    ELSE LET new == [row EXCEPT !.id = SubIdName(1)]
         IN [error |-> NULL, data |-> new, table |-> t \cup {new}, next |-> n + 1]

\* insert(row).select(selectCols).single(): refused with 23505 when a row holds
\* the same non-null key; the id is generated by the store
InsertSubmission(t, n, row) ==
  IF row.submission_key # NULL /\ \E u \in t : SameKey(u, row)
    THEN [error |-> "23505", data |-> NoSub, table |-> t, next |-> n]
    ELSE LET new == [row EXCEPT !.id = SubIdName(n)]
         IN [error |-> NULL, data |-> new, table |-> t \cup {new}, next |-> n + 1]

SubFailure(t, n) == [error |-> "io", data |-> NoSub, table |-> t, next |-> n]

\* select(selectCols).eq("site", ..).eq("form_slug", ..).eq("submission_key", ..)
\* .single(): an error unless exactly one row matches
SelectSubmissionByKey(t, row) ==
  LET hit == {u \in t : SameKey(u, row)}
  IN IF Cardinality(hit) = 1
       THEN [error |-> NULL, data |-> CHOOSE u \in hit : TRUE]
       ELSE [error |-> "PGRST116", data |-> NoSub]

\* update({status, updated_at}).eq("id", id): zero matching rows is no error
UpdateSubmissionStatus(t, id, status) ==
  {IF u.id = id THEN [u EXCEPT !.status = status] ELSE u : u \in t}

FormError(statusCode, code) == [name |-> "FormError", message |-> code]

\* createFormSubmission, lines 208-219: the row handed to the insert
FormRowOf(input) ==
  [id |-> NULL, site |-> input.site, form_slug |-> input.formSlug,
   submission_key |-> input.submissionKey,
   status |-> IF input.status = NULL THEN "new" ELSE input.status,
   payload |-> input.payload]

\* what createFormSubmission returns: the selected columns and the deduped flag
FormResult(row, deduped) ==
  [kind |-> "row", id |-> row.id, status |-> row.status,
   submission_key |-> row.submission_key, deduped |-> deduped, err |-> NoErr]

FormThrow(e) ==
  [kind |-> "throw", id |-> NULL, status |-> NULL, submission_key |-> NULL,
   deduped |-> FALSE, err |-> e]

----------------------------------------------------------------------------
(* handleStripeEvent: one invocation per delivery *)

NotifierAttempts == 3

NoResult == [ok |-> FALSE, handled |-> FALSE, deduped |-> FALSE, paymentId |-> 0]

\* process.env of a deployment with the CRM webhook set up
ConfiguredEnv ==
  [RESINARO_CRM_WEBHOOK_URL |-> "https://crm.example/hook",
   RESINARO_CRM_WEBHOOK_SECRET |-> "s3cret"]

\* the environments of SpecTenant: set up, without the URL, with a blank secret
Envs ==
  {ConfiguredEnv,
   [ConfiguredEnv EXCEPT !.RESINARO_CRM_WEBHOOK_URL = NULL],
   [ConfiguredEnv EXCEPT !.RESINARO_CRM_WEBHOOK_SECRET = " "]}

\* lines 112-114: the CRM webhook URL and secret are present in the environment
CrmConfigured ==
  /\ isNonEmptyString(env.RESINARO_CRM_WEBHOOK_URL)
  /\ isNonEmptyString(env.RESINARO_CRM_WEBHOOK_SECRET)

\* lines 292-297: metadata fields of the PaymentIntent
SiteOf(e) == ToLower(cleanStringOr(e.pi.site, "unknown"))
FormSubmissionIdOf(e) == e.pi.form_submission_id

\* a handler without the asserts on the payload
ValidatePayloadAcceptsAll(e) == NoErr

\* lines 288-306: the asserts on the payload; NoErr when all pass
ValidatePayload(e) ==
  IF e.pi.id = NULL THEN Error("Missing PaymentIntent.id")
  ELSE IF e.pi.currency = NULL THEN Error("Missing PaymentIntent.currency")
  ELSE IF ~IsInteger(e.pi.amount) THEN Error("Stripe amount is not integer cents")
  ELSE IF ~isCurrency(ToLower(e.pi.currency)) THEN Error("Unsupported currency")
  ELSE NoErr

\* lines 313-319: eventSnapshot, five short members
EventSnapshot(e) ==
  JsonObject(<<Member("id", 30), Member("type", 40), Member("created", 20),
               Member("livemode", 15), Member("payment_intent_id", 50)>>)

\* lines 321-331: the input of createPaymentRecord
PaymentInputOf(e) ==
  [site |-> SiteOf(e), formSubmissionId |-> FormSubmissionIdOf(e),
   amountCents |-> e.pi.amount, currency |-> ToLower(e.pi.currency),
   stripePaymentIntentId |-> e.pi.id, stripeCheckoutSessionId |-> NULL,
   status |-> "succeeded", rawEvent |-> EventSnapshot(e)]

\* a notifier that posts the events of every site
NotifierPostsEverySite(e) == CrmConfigured

\* lines 110-121: notifyResinaroCrm returns without a POST unless the site is
\* resinaro and the webhook is configured
NotifierPosts(e) == SiteOf(e) = "resinaro" /\ CrmConfigured

\* a switch without the default branch: every event is taken for a payment
AfterClaimProcessesAll(e) ==
  IF ValidatePayload(e) # NoErr
    THEN [pc |-> "mark_failed", err |-> ValidatePayload(e)]
  ELSE IF ValidatePayment(PaymentInputOf(e)) # NoErr
    THEN [pc |-> "mark_failed", err |-> ValidatePayment(PaymentInputOf(e))]
  ELSE [pc |-> "ledger", err |-> NoErr]

\* where the invocation is suspended next once the claim is granted (lines 283-320,
\* 372-374): the first await of the try block, or the catch block
AfterClaim(e) ==
  IF e.type = "payment_intent.succeeded"
    THEN IF ValidatePayload(e) # NoErr
           THEN [pc |-> "mark_failed", err |-> ValidatePayload(e)]
         ELSE IF ValidatePayment(PaymentInputOf(e)) # NoErr
           THEN [pc |-> "mark_failed", err |-> ValidatePayment(PaymentInputOf(e))]
         ELSE [pc |-> "ledger", err |-> NoErr]
    ELSE [pc |-> "mark_succeeded", err |-> NoErr]

\* after the ledger write and the submission update: the notifier or the final mark
AfterWrites(e) == IF NotifierPosts(e) THEN "notify" ELSE "mark_succeeded"

\* handleStripeWebhookHttp, jsonResponse: status code and JSON body
jsonResponse(statusCode, body) == [statusCode |-> statusCode, body |-> body]

\* no answer yet
NoResponse == jsonResponse(0, [ok |-> FALSE])

\* a boundary that acknowledges whatever the handler does
WebhookResponseAcksErrors(outcome, res) ==
  IF outcome = "returned"
    THEN jsonResponse(200, [ok |-> TRUE, handled |-> res.handled])
  ELSE IF outcome = "raised"
    THEN jsonResponse(200, [ok |-> TRUE, handled |-> FALSE])
  ELSE NoResponse

\* a boundary that reports every returned event as handled
WebhookResponseDropsFlag(outcome, res) ==
  IF outcome = "returned"
    THEN jsonResponse(200, [ok |-> TRUE, handled |-> TRUE])
  ELSE IF outcome = "raised"
    THEN jsonResponse(500, [ok |-> FALSE])
  ELSE NoResponse

\* handleStripeWebhookHttp around handleStripeEvent: 200 with the result's
\* handled flag when it returns, 500 when it throws; nothing is awaited between
\* the settling of handleStripeEvent and the answer
WebhookResponse(outcome, res) ==
  IF outcome = "returned"
    THEN jsonResponse(200, [ok |-> TRUE, handled |-> res.handled])
  ELSE IF outcome = "raised"
    THEN jsonResponse(500, [ok |-> FALSE])
  ELSE NoResponse

Claimed(i) == claim[i] \in {"inserted", "reclaimed"}

CriticalPcs == {"ledger", "sub_update", "notify", "notify_wait", "mark_succeeded",
                "mark_failed"}

InCritical(i) == pc[i] \in CriticalPcs

Set(f, i, v) == [f EXCEPT ![i] = v]

Raise(i, e) ==
  /\ pc' = Set(pc, i, "raised")
  /\ err' = Set(err, i, e)

Catch(i, e) ==
  /\ pc' = Set(pc, i, "mark_failed")
  /\ err' = Set(err, i, e)

----------------------------------------------------------------------------
(* Actions of an invocation i of handleStripeEvent *)

\* The caller hands a verified event to handleStripeEvent (a first delivery or
\* a redelivery); the invocation takes the lowest free slot.
Deliver(i, id) ==
  /\ pc[i] = "idle"
  /\ \A k \in Invs : k < i => pc[k] # "idle"
  /\ started < MaxDeliveries
  /\ started' = started + 1
  /\ pc' = Set(pc, i, "claim_insert")
  /\ ev' = Set(ev, i, id)
  /\ seen' = Set(seen, i, journal[id].status)
  /\ UNCHANGED <<journal, payments, submissions, nextPayId, claim, err, result,
                 attempt, paymentId, delivered, inserts, dvars, fvars, nextSubId, faults, env, xvars>>
  /\ http' = Set(http, i, NoResponse)

\* Stripe delivers an event again, some time after the previous delivery of it
\* has been answered and while no other invocation runs; the deliveries of this
\* action are not counted
Redeliver(i, id) ==
  /\ pc[i] = "idle"
  /\ \A k \in Invs : pc[k] = "idle"
  /\ \A k \in Invs : ev[k] # id
  /\ \A k \in Invs : k < i => pc[k] # "idle"
  /\ pc' = Set(pc, i, "claim_insert")
  /\ ev' = Set(ev, i, id)
  /\ seen' = Set(seen, i, journal[id].status)
  /\ UNCHANGED <<journal, payments, submissions, nextPayId, claim, err, result,
                 attempt, paymentId, delivered, inserts, started, dvars, fvars, nextSubId, faults, env, xvars>>
  /\ http' = Set(http, i, NoResponse)

\* a delivery of a payment event, valid or malformed
DeliverPayload(i, id) ==
  /\ started < MaxPayloadDeliveries
  /\ Deliver(i, id)

\* a claim made inside the try block: a failed insert goes through the catch block
ClaimInsertInsideTry(i) ==
  /\ pc[i] = "claim_insert"
  /\ \E io \in Failures :
       LET e == Event(ev[i])
           insertRes == IF io THEN StoreFailure(journal)
                              ELSE InsertEvent(journal, e.id, NewEventRow(e))
       IN /\ journal' = insertRes.table
          /\ IF insertRes.error = NULL /\ insertRes.found
               THEN /\ claim' = Set(claim, i, "inserted")
                    /\ inserts' = [inserts EXCEPT ![e.id] = @ + 1]
                    /\ pc' = Set(pc, i, AfterClaim(e).pc)
                    /\ err' = Set(err, i, AfterClaim(e).err)
             ELSE IF insertRes.error # NULL /\ ~isUniqueViolation(insertRes.error)
               THEN /\ Catch(i, Error("stripe_events insert failed"))
                    /\ UNCHANGED <<claim, inserts>>
             ELSE /\ pc' = Set(pc, i, "claim_fetch")
                  /\ UNCHANGED <<claim, inserts, err>>
  /\ UNCHANGED <<payments, submissions, nextPayId, ev, result, attempt, paymentId,
                 seen, delivered, started, dvars, fvars, nextSubId, faults, env, xvars>>
  /\ http' = Set(http, i, WebhookResponse(pc'[i], result'[i]))

\* claimStripeEvent, lines 158-179: the insert
ClaimInsert(i) ==
  /\ pc[i] = "claim_insert"
  /\ \E io \in Failures :
       LET e == Event(ev[i])
           insertRes == IF io THEN StoreFailure(journal)
                              ELSE InsertEvent(journal, e.id, NewEventRow(e))
       IN /\ journal' = insertRes.table
          /\ IF insertRes.error = NULL /\ insertRes.found
               THEN /\ claim' = Set(claim, i, "inserted")
                    /\ inserts' = [inserts EXCEPT ![e.id] = @ + 1]
                    /\ pc' = Set(pc, i, AfterClaim(e).pc)
                    /\ err' = Set(err, i, AfterClaim(e).err)
             ELSE IF insertRes.error # NULL /\ ~isUniqueViolation(insertRes.error)
               THEN /\ Raise(i, Error("stripe_events insert failed"))
                    /\ UNCHANGED <<claim, inserts>>
             ELSE /\ pc' = Set(pc, i, "claim_fetch")
                  /\ UNCHANGED <<claim, inserts, err>>
  /\ UNCHANGED <<payments, submissions, nextPayId, ev, result, attempt, paymentId,
                 seen, delivered, started, dvars, fvars, nextSubId, faults, env, xvars>>
  /\ http' = Set(http, i, WebhookResponse(pc'[i], result'[i]))

\* a claim that treats a failed row as locked, like a processing one
ClaimFetchFailedIsLocked(i) ==
  /\ pc[i] = "claim_fetch"
  /\ \E io \in Failures :
       LET existingRes == IF io THEN StoreFailure(journal)
                                ELSE SelectEvent(journal, ev[i])
           row == existingRes.data
       IN IF existingRes.error # NULL
            THEN /\ Raise(i, Error("stripe_events fetch failed"))
                 /\ UNCHANGED <<claim, result>>
          ELSE IF ~existingRes.found
            THEN /\ claim' = Set(claim, i, "missing")
                 /\ Raise(i, Error("stripe_event_missing_after_duplicate"))
                 /\ UNCHANGED result
          ELSE IF row.status = "succeeded"
            THEN /\ claim' = Set(claim, i, "already_succeeded")
                 /\ result' = Set(result, i, [ok |-> TRUE, handled |-> FALSE,
                                              deduped |-> TRUE, paymentId |-> 0])
                 /\ pc' = Set(pc, i, "returned")
                 /\ UNCHANGED err
          ELSE /\ claim' = Set(claim, i, "already_processing")
               /\ Raise(i, Error("stripe_event_already_processing"))
               /\ UNCHANGED result
  /\ UNCHANGED <<journal, payments, submissions, nextPayId, ev, attempt, paymentId,
                 seen, delivered, inserts, started, dvars, fvars, nextSubId, faults, env, xvars>>
  /\ http' = Set(http, i, WebhookResponse(pc'[i], result'[i]))

\* a handler that goes on to the business logic although the row is processing
ClaimFetchProcessingProceeds(i) ==
  /\ pc[i] = "claim_fetch"
  /\ \E io \in Failures :
       LET existingRes == IF io THEN StoreFailure(journal)
                                ELSE SelectEvent(journal, ev[i])
           row == existingRes.data
       IN IF existingRes.error # NULL
            THEN /\ Raise(i, Error("stripe_events fetch failed"))
                 /\ UNCHANGED <<claim, result>>
          ELSE IF ~existingRes.found
            THEN /\ claim' = Set(claim, i, "missing")
                 /\ Raise(i, Error("stripe_event_missing_after_duplicate"))
                 /\ UNCHANGED result
          ELSE IF row.status = "succeeded"
            THEN /\ claim' = Set(claim, i, "already_succeeded")
                 /\ result' = Set(result, i, [ok |-> TRUE, handled |-> FALSE,
                                              deduped |-> TRUE, paymentId |-> 0])
                 /\ pc' = Set(pc, i, "returned")
                 /\ UNCHANGED err
          ELSE IF row.status = "processing"
            THEN /\ claim' = Set(claim, i, "already_processing")
                 /\ pc' = Set(pc, i, AfterClaim(Event(ev[i])).pc)
                 /\ err' = Set(err, i, AfterClaim(Event(ev[i])).err)
                 /\ UNCHANGED result
          ELSE /\ pc' = Set(pc, i, "claim_update")
               /\ UNCHANGED <<claim, err, result>>
  /\ UNCHANGED <<journal, payments, submissions, nextPayId, ev, attempt, paymentId,
                 seen, delivered, inserts, started, dvars, fvars, nextSubId, faults, env, xvars>>
  /\ http' = Set(http, i, WebhookResponse(pc'[i], result'[i]))

\* claimStripeEvent, lines 182-213, and handleStripeEvent, lines 263-273
ClaimFetch(i) ==
  /\ pc[i] = "claim_fetch"
  /\ \E io \in Failures :
       LET existingRes == IF io THEN StoreFailure(journal)
                                ELSE SelectEvent(journal, ev[i])
           row == existingRes.data
       IN IF existingRes.error # NULL
            THEN /\ Raise(i, Error("stripe_events fetch failed"))
                 /\ UNCHANGED <<claim, result>>
          ELSE IF ~existingRes.found
            THEN /\ claim' = Set(claim, i, "missing")
                 /\ Raise(i, Error("stripe_event_missing_after_duplicate"))
                 /\ UNCHANGED result
          ELSE IF row.status = "succeeded"
            THEN /\ claim' = Set(claim, i, "already_succeeded")
                 /\ result' = Set(result, i, [ok |-> TRUE, handled |-> FALSE,
                                              deduped |-> TRUE, paymentId |-> 0])
                 /\ pc' = Set(pc, i, "returned")
                 /\ UNCHANGED err
          ELSE IF row.status = "processing"
            THEN /\ claim' = Set(claim, i, "already_processing")
                 /\ Raise(i, Error("stripe_event_already_processing"))
                 /\ UNCHANGED result
          ELSE /\ pc' = Set(pc, i, "claim_update")
               /\ UNCHANGED <<claim, err, result>>
  /\ UNCHANGED <<journal, payments, submissions, nextPayId, ev, attempt, paymentId,
                 seen, delivered, inserts, started, dvars, fvars, nextSubId, faults, env, xvars>>
  /\ http' = Set(http, i, WebhookResponse(pc'[i], result'[i]))

\* a re-claim that sets the status and leaves the other columns as they are
ClaimUpdateStatusOnly(i) ==
  /\ pc[i] = "claim_update"
  /\ \E io \in Failures :
       LET e == Event(ev[i])
           upd == IF io THEN StoreFailure(journal)
                        ELSE UpdateEvent(journal, e.id, "processing",
                                         journal[e.id].processed_at,
                                         journal[e.id].last_error)
       IN /\ journal' = upd.table
          /\ IF upd.error # NULL \/ ~upd.found
               THEN /\ Raise(i, Error("stripe_events reclaim failed"))
                    /\ UNCHANGED claim
               ELSE /\ claim' = Set(claim, i, "reclaimed")
                    /\ pc' = Set(pc, i, AfterClaim(e).pc)
                    /\ err' = Set(err, i, AfterClaim(e).err)
  /\ UNCHANGED <<payments, submissions, nextPayId, ev, result, attempt, paymentId,
                 seen, delivered, inserts, started, dvars, fvars, nextSubId, faults, env, xvars>>
  /\ http' = Set(http, i, WebhookResponse(pc'[i], result'[i]))

\* claimStripeEvent, lines 215-231: the re-claim of a failed row
ClaimUpdate(i) ==
  /\ pc[i] = "claim_update"
  /\ \E io \in Failures :
       LET e == Event(ev[i])
           upd == IF io THEN StoreFailure(journal)
                        ELSE UpdateEvent(journal, e.id, "processing", NULL, NULL)
       IN /\ journal' = upd.table
          /\ IF upd.error # NULL \/ ~upd.found
               THEN /\ Raise(i, Error("stripe_events reclaim failed"))
                    /\ UNCHANGED claim
               ELSE /\ claim' = Set(claim, i, "reclaimed")
                    /\ pc' = Set(pc, i, AfterClaim(e).pc)
                    /\ err' = Set(err, i, AfterClaim(e).err)
  /\ UNCHANGED <<payments, submissions, nextPayId, ev, result, attempt, paymentId,
                 seen, delivered, inserts, started, dvars, fvars, nextSubId, faults, env, xvars>>
  /\ http' = Set(http, i, WebhookResponse(pc'[i], result'[i]))

\* a handler that calls the notifier before the submission update
LedgerNotifiesFirst(i) ==
  /\ pc[i] = "ledger"
  /\ \E io \in Failures :
       LET e == Event(ev[i])
           out == CreatePaymentUpsert(payments, nextPayId, PaymentInputOf(e), io)
       IN /\ payments' = out.table
          /\ nextPayId' = out.next
          /\ IF out.kind = "row"
               THEN /\ paymentId' = Set(paymentId, i, out.row.id)
                    /\ pc' = Set(pc, i, AfterWrites(e))
                    /\ UNCHANGED err
               ELSE /\ Catch(i, out.err)
                    /\ UNCHANGED paymentId
  /\ UNCHANGED <<journal, submissions, ev, claim, result, attempt, seen, delivered,
                 inserts, started, dvars, fvars, nextSubId, faults, env, xvars>>
  /\ http' = Set(http, i, WebhookResponse(pc'[i], result'[i]))

\* a handler that goes on to the submission update without the ledger write
LedgerSkipsWrite(i) ==
  /\ pc[i] = "ledger"
  /\ pc' = Set(pc, i, IF FormSubmissionIdOf(Event(ev[i])) # NULL
                         THEN "sub_update" ELSE AfterWrites(Event(ev[i])))
  /\ UNCHANGED <<journal, payments, submissions, nextPayId, ev, claim, err, result,
                 attempt, paymentId, seen, delivered, inserts, started, dvars, fvars,
                 nextSubId, faults, env, xvars>>
  /\ http' = Set(http, i, WebhookResponse(pc'[i], result'[i]))

\* handleStripeEvent, lines 321-331: createPaymentRecord (the webhook passes no
\* checkout session id, so the fallback read never follows)
Ledger(i) ==
  /\ pc[i] = "ledger"
  /\ \E io \in Failures :
       LET e == Event(ev[i])
           out == CreatePaymentUpsert(payments, nextPayId, PaymentInputOf(e), io)
       IN /\ payments' = out.table
          /\ nextPayId' = out.next
          /\ IF out.kind = "row"
               THEN /\ paymentId' = Set(paymentId, i, out.row.id)
                    /\ pc' = Set(pc, i, IF FormSubmissionIdOf(e) # NULL
                                          THEN "sub_update" ELSE AfterWrites(e))
                    /\ UNCHANGED err
               ELSE /\ Catch(i, out.err)
                    /\ UNCHANGED paymentId
  /\ UNCHANGED <<journal, submissions, ev, claim, result, attempt, seen, delivered,
                 inserts, started, dvars, fvars, nextSubId, faults, env, xvars>>
  /\ http' = Set(http, i, WebhookResponse(pc'[i], result'[i]))

\* a submission update that takes zero matching rows for an error
SubUpdateRequiresRow(i) ==
  /\ pc[i] = "sub_update"
  /\ \E io \in Failures :
       LET e == Event(ev[i])
           id == FormSubmissionIdOf(e)
       IN IF io \/ \A u \in submissions : u.id # id
            THEN /\ Catch(i, Error("form_submissions update failed"))
                 /\ UNCHANGED submissions
            ELSE /\ submissions' = UpdateSubmissionStatus(submissions, id, "converted")
                 /\ pc' = Set(pc, i, AfterWrites(e))
                 /\ UNCHANGED err
  /\ UNCHANGED <<journal, payments, nextPayId, ev, claim, result, attempt, paymentId,
                 seen, delivered, inserts, started, dvars, fvars, nextSubId, faults, env, xvars>>
  /\ http' = Set(http, i, WebhookResponse(pc'[i], result'[i]))

\* handleStripeEvent, lines 333-345: update form_submissions set status =
\* 'converted' where id = formSubmissionId (zero matching rows is no error)
SubUpdate(i) ==
  /\ pc[i] = "sub_update"
  /\ \E io \in Failures :
       LET e == Event(ev[i])
           id == FormSubmissionIdOf(e)
       IN IF io
            THEN /\ Catch(i, Error("form_submissions update failed"))
                 /\ UNCHANGED submissions
            ELSE /\ submissions' = UpdateSubmissionStatus(submissions, id, "converted")
                 /\ pc' = Set(pc, i, AfterWrites(e))
                 /\ UNCHANGED err
  /\ UNCHANGED <<journal, payments, nextPayId, ev, claim, result, attempt, paymentId,
                 seen, delivered, inserts, started, dvars, fvars, nextSubId, faults, env, xvars>>
  /\ http' = Set(http, i, WebhookResponse(pc'[i], result'[i]))

\* a loop that never gives up: every failed fetch is followed by a wait
NotifyNeverGivesUp(i) ==
  /\ pc[i] = "notify"
  /\ \E io \in Failures :
       IF ~io
         THEN /\ delivered' = [delivered EXCEPT ![ev[i]] =
                                  IF @ < 2 THEN @ + 1 ELSE @]
              /\ attempt' = Set(attempt, i, 0)
              /\ pc' = Set(pc, i, "mark_succeeded")
         ELSE /\ pc' = Set(pc, i, "notify_wait")
              /\ UNCHANGED <<delivered, attempt>>
  /\ UNCHANGED <<journal, payments, submissions, nextPayId, ev, claim, err, result,
                 paymentId, seen, inserts, started, dvars, fvars, nextSubId, faults, env, xvars>>
  /\ http' = Set(http, i, WebhookResponse(pc'[i], result'[i]))

\* postJsonWithRetries, lines 74-94, called by notifyResinaroCrm at line 348 with
\* attempts = 3: one step per fetch (each fetch settles, by its answer or by its
\* timeout); attempt is the loop index i
Notify(i) ==
  /\ pc[i] = "notify"
  /\ \E io \in Failures :
       IF ~io
         THEN /\ delivered' = [delivered EXCEPT ![ev[i]] =
                                  IF @ < 2 THEN @ + 1 ELSE @]
              /\ attempt' = Set(attempt, i, 0)
              /\ pc' = Set(pc, i, "mark_succeeded")
              /\ UNCHANGED err
         ELSE /\ UNCHANGED delivered
              /\ IF attempt[i] < NotifierAttempts - 1
                   THEN /\ pc' = Set(pc, i, "notify_wait")
                        /\ UNCHANGED <<attempt, err>>
                   ELSE /\ attempt' = Set(attempt, i, 0)
                        /\ Catch(i, Error("HTTP 500"))
  /\ UNCHANGED <<journal, payments, submissions, nextPayId, ev, claim, result,
                 paymentId, seen, inserts, started, dvars, fvars, nextSubId, faults, env, xvars>>
  /\ http' = Set(http, i, WebhookResponse(pc'[i], result'[i]))

\* postJsonWithRetries, lines 89-91: the timer of 300 * (i + 1) ms between two
\* attempts fires, and the loop goes on with i + 1
NotifyWait(i) ==
  /\ pc[i] = "notify_wait"
  /\ pc' = Set(pc, i, "notify")
  /\ attempt' = Set(attempt, i, attempt[i] + 1)
  /\ UNCHANGED <<journal, payments, submissions, nextPayId, ev, claim, err, result,
                 paymentId, seen, delivered, inserts, started, dvars, fvars,
                 nextSubId, faults, env, xvars>>
  /\ http' = Set(http, i, WebhookResponse(pc'[i], result'[i]))

\* a return whose deduped flag is always false
MarkSucceededNeverDeduped(i) ==
  /\ pc[i] = "mark_succeeded"
  /\ \E io \in Failures :
       LET e == Event(ev[i])
           res == IF io THEN StoreFailure(journal)
                        ELSE UpdateEvent(journal, e.id, "succeeded", nowIso, NULL)
       IN /\ journal' = res.table
          /\ IF res.error # NULL
               THEN /\ Catch(i, Error("stripe_events update failed"))
                    /\ UNCHANGED result
               ELSE /\ pc' = Set(pc, i, "returned")
                    /\ result' = Set(result, i,
                         [ok |-> TRUE,
                          handled |-> (e.type = "payment_intent.succeeded"),
                          deduped |-> FALSE,
                          paymentId |-> paymentId[i]])
                    /\ UNCHANGED err
  /\ UNCHANGED <<payments, submissions, nextPayId, ev, claim, attempt, paymentId,
                 seen, delivered, inserts, started, dvars, fvars, nextSubId, faults, env, xvars>>
  /\ http' = Set(http, i, WebhookResponse(pc'[i], result'[i]))

\* markStripeEventStatus(event.id, "succeeded", null) at lines 362 and 374, and the
\* return that follows
MarkSucceeded(i) ==
  /\ pc[i] = "mark_succeeded"
  /\ \E io \in Failures :
       LET e == Event(ev[i])
           res == IF io THEN StoreFailure(journal)
                        ELSE UpdateEvent(journal, e.id, "succeeded", nowIso, NULL)
       IN /\ journal' = res.table
          /\ IF res.error # NULL
               THEN /\ Catch(i, Error("stripe_events update failed"))
                    /\ UNCHANGED result
               ELSE /\ pc' = Set(pc, i, "returned")
                    /\ result' = Set(result, i,
                         [ok |-> TRUE,
                          handled |-> (e.type = "payment_intent.succeeded"),
                          deduped |-> (claim[i] # "inserted"),
                          paymentId |-> paymentId[i]])
                    /\ UNCHANGED err
  /\ UNCHANGED <<payments, submissions, nextPayId, ev, claim, attempt, paymentId,
                 seen, delivered, inserts, started, dvars, fvars, nextSubId, faults, env, xvars>>
  /\ http' = Set(http, i, WebhookResponse(pc'[i], result'[i]))

\* a catch block that marks the row succeeded
MarkFailedMarksSucceeded(i) ==
  /\ pc[i] = "mark_failed"
  /\ \E io \in Failures :
       LET res == IF io THEN StoreFailure(journal)
                        ELSE UpdateEvent(journal, ev[i], "succeeded", nowIso, NULL)
       IN journal' = res.table
  /\ pc' = Set(pc, i, "raised")
  /\ UNCHANGED <<payments, submissions, nextPayId, ev, claim, err, result, attempt,
                 paymentId, seen, delivered, inserts, started, dvars, fvars, nextSubId,
                 faults, env, xvars>>
  /\ http' = Set(http, i, WebhookResponse(pc'[i], result'[i]))

\* a catch block that lets the error of the marking write replace the original
MarkFailedRaisesMarkError(i) ==
  /\ pc[i] = "mark_failed"
  /\ \E io \in Failures :
       LET message == errMsg(err[i])
           res == IF io THEN StoreFailure(journal)
                        ELSE UpdateEvent(journal, ev[i], "failed", nowIso, message)
       IN /\ journal' = res.table
          /\ err' = Set(err, i, IF res.error # NULL
                                  THEN Error("stripe_events update failed")
                                  ELSE err[i])
  /\ pc' = Set(pc, i, "raised")
  /\ UNCHANGED <<payments, submissions, nextPayId, ev, claim, result, attempt,
                 paymentId, seen, delivered, inserts, started, dvars, fvars, nextSubId, faults, env, xvars>>
  /\ http' = Set(http, i, WebhookResponse(pc'[i], result'[i]))

\* the catch block, lines 378-399: best-effort markStripeEventStatus(event.id,
\* "failed", message), then throw err
MarkFailed(i) ==
  /\ pc[i] = "mark_failed"
  /\ \E io \in Failures :
       LET message == errMsg(err[i])
           res == IF io THEN StoreFailure(journal)
                        ELSE UpdateEvent(journal, ev[i], "failed", nowIso, message)
       IN journal' = res.table
  /\ pc' = Set(pc, i, "raised")
  /\ UNCHANGED <<payments, submissions, nextPayId, ev, claim, err, result, attempt,
                 paymentId, seen, delivered, inserts, started, dvars, fvars, nextSubId, faults, env, xvars>>
  /\ http' = Set(http, i, WebhookResponse(pc'[i], result'[i]))

\* a delivery of a valid payment event of some tenant
DeliverTenant(i, id) ==
  /\ started < MaxTenantDeliveries
  /\ Deliver(i, id)

\* a delivery of an event the CRM is told about, while no other invocation runs
DeliverNotifier(i, id) ==
  /\ started < MaxNotifierDeliveries
  /\ \A k \in Invs : pc[k] = "idle"
  /\ Deliver(i, id)

\* a delivery in a run where a container may die
DeliverCrash(i, id) ==
  /\ started < MaxCrashDeliveries
  /\ Deliver(i, id)

\* The container dies while the invocation holds the claim, before a terminal
\* mark: nothing more of it runs, no answer is sent, and the container is gone
Crash(i) ==
  /\ pc[i] \in CriticalPcs
  /\ pc' = Set(pc, i, "crashed")
  /\ UNCHANGED <<journal, payments, submissions, nextPayId, ev, claim, err, result,
                 attempt, paymentId, seen, delivered, inserts, started, dvars, fvars,
                 nextSubId, faults, env, xvars, http>>

\* The invocation has returned or thrown: its slot is free for a later delivery
Finish(i) ==
  /\ pc[i] \in {"returned", "raised"}
  /\ pc' = Set(pc, i, "idle")
  /\ ev' = Set(ev, i, NULL)
  /\ claim' = Set(claim, i, "none")
  /\ err' = Set(err, i, NoErr)
  /\ result' = Set(result, i, NoResult)
  /\ paymentId' = Set(paymentId, i, 0)
  /\ seen' = Set(seen, i, "none")
  /\ UNCHANGED <<journal, payments, submissions, nextPayId, attempt, delivered,
                 inserts, started, dvars, fvars, nextSubId, faults, env, xvars>>
  /\ http' = Set(http, i, NoResponse)

----------------------------------------------------------------------------
(* createPaymentRecord called on its own: by the webhook with the input of *)
(* an event, and by any other caller of the exported function              *)

\* Concurrent callers of createPaymentRecord
Callers == {1, 2}

\* a valid input for pi_1 without a snapshot
BaseInput ==
  [site |-> "resinaro", formSubmissionId |-> NULL, amountCents |-> Num(4000, 1),
   currency |-> "gbp", stripePaymentIntentId |-> "pi_1",
   stripeCheckoutSessionId |-> NULL, status |-> "succeeded", rawEvent |-> JsonNull]

\* inputs the checks refuse: amount 0, negative, 4000.5; a currency in upper case
\* (neither provider id is among the inputs below)
InvalidInputs ==
  {[BaseInput EXCEPT !.amountCents = Num(0, 1)],
   [BaseInput EXCEPT !.amountCents = Num(0 - 500, 1)],
   [BaseInput EXCEPT !.amountCents = Num(8001, 2)],
   [BaseInput EXCEPT !.currency = "GBP"]}

RepeatMember(n, bytes) == [k \in 1..n |-> Member("k", bytes)]

\* snapshots: 13 members of 950 bytes, one member of 13000 bytes, an object
\* with a cycle
RawManyKeys == JsonObject(RepeatMember(13, 950))
RawOneBig == JsonObject(<<Member("blob", 13000)>>)
RawCyclic == JsonUnserializable(<<Member("self", 0)>>)

RawInputs == {[BaseInput EXCEPT !.rawEvent = r] : r \in {RawManyKeys, RawOneBig, RawCyclic}}

DirectInputs ==
  { [BaseInput EXCEPT !.amountCents = a.amount, !.currency = a.currency,
                      !.stripePaymentIntentId = p, !.stripeCheckoutSessionId = c] :
      a \in {[amount |-> Num(4000, 1), currency |-> "gbp"],
             [amount |-> Num(2500, 1), currency |-> "eur"]},
      p \in {NULL, "pi_1", "pi_2"},
      c \in {NULL, "cs_1"} }
  \cup {PaymentInputOf(Event("evt_1"))}
  \cup InvalidInputs
  \cup RawInputs

NoInput == [site |-> NULL, formSubmissionId |-> NULL, amountCents |-> Num(0, 1),
            currency |-> NULL, stripePaymentIntentId |-> NULL,
            stripeCheckoutSessionId |-> NULL, status |-> NULL, rawEvent |-> JsonNull]

NoOut == [kind |-> "none", row |-> NoPay, err |-> NoErr]

\* createPaymentRecord, lines 177-203: validation, before any store call
DirectCall(c, input) ==
  /\ dcPc[c] = "idle"
  /\ \A k \in Callers : k < c => dcPc[k] # "idle"
  /\ dcLeft > 0
  /\ dcLeft' = dcLeft - 1
  /\ dcIn' = Set(dcIn, c, input)
  /\ IF ValidatePayment(input) # NoErr
       THEN /\ dcPc' = Set(dcPc, c, "idle")
            /\ dcOut' = Set(dcOut, c, [kind |-> "throw", row |-> NoPay,
                                       err |-> ValidatePayment(input)])
       ELSE /\ dcPc' = Set(dcPc, c, "upsert")
            /\ dcOut' = Set(dcOut, c, NoOut)
  /\ UNCHANGED <<journal, payments, submissions, nextPayId, nextSubId, hvars, fvars, faults, env, xvars>>

\* createPaymentRecord, lines 231-244
DirectUpsert(c) ==
  /\ dcPc[c] = "upsert"
  /\ \E io \in Failures :
       LET out == CreatePaymentUpsert(payments, nextPayId, dcIn[c], io)
       IN /\ payments' = out.table
          /\ nextPayId' = out.next
          /\ dcPc' = Set(dcPc, c, IF out.kind = "read_cs" THEN "read_cs" ELSE "idle")
          /\ dcOut' = Set(dcOut, c, [kind |-> out.kind, row |-> out.row, err |-> out.err])
  /\ UNCHANGED <<journal, submissions, nextSubId, hvars, fvars, dcLeft, dcIn, faults, env, xvars>>

\* createPaymentRecord, lines 246-281
DirectReadSession(c) ==
  /\ dcPc[c] = "read_cs"
  /\ \E io \in Failures :
       dcOut' = Set(dcOut, c, CreatePaymentReadSession(payments, dcIn[c], io))
  /\ dcPc' = Set(dcPc, c, "idle")
  /\ UNCHANGED <<journal, payments, submissions, nextPayId, nextSubId, hvars, fvars, dcLeft, dcIn,
                 faults, env, xvars>>

----------------------------------------------------------------------------
(* createFormSubmission called by the form handlers *)

\* Concurrent callers of createFormSubmission
FormCallers == {1, 2}

FormInputs ==
  { [site |-> "resinaro", formSlug |-> f, submissionKey |-> k, status |-> st,
     payload |-> p] :
      f \in {"visa", "contact"}, k \in {NULL, "k1"},
      st \in {NULL, "pending_payment"}, p \in {"p1", "p2"} }

NoFormInput == [site |-> NULL, formSlug |-> NULL, submissionKey |-> NULL,
                status |-> NULL, payload |-> NULL]

NoFormOut == [kind |-> "none", id |-> NULL, status |-> NULL, submission_key |-> NULL,
              deduped |-> FALSE, err |-> NoErr]

\* createFormSubmission, lines 185-222: parse and build the row (the inputs of
\* the model all pass InputSchema)
FormCall(c, input) ==
  /\ fcPc[c] = "idle"
  /\ \A k \in FormCallers : k < c => fcPc[k] # "idle"
  /\ fcLeft > 0
  /\ fcLeft' = fcLeft - 1
  /\ fcIn' = Set(fcIn, c, input)
  /\ fcPc' = Set(fcPc, c, "insert")
  /\ fcOut' = Set(fcOut, c, NoFormOut)
  /\ UNCHANGED <<journal, payments, submissions, nextPayId, nextSubId, hvars, dvars,
                 faults, env, xvars>>

\* createFormSubmission, lines 225-237 and 258-293: the insert of either path
FormInsert(c) ==
  /\ fcPc[c] = "insert"
  /\ \E io \in Failures :
       LET row == FormRowOf(fcIn[c])
           ins == IF io THEN SubFailure(submissions, nextSubId)
                        ELSE InsertSubmission(submissions, nextSubId, row)
       IN /\ submissions' = ins.table
          /\ nextSubId' = ins.next
          /\ IF ins.error = NULL
               THEN /\ fcOut' = Set(fcOut, c, FormResult(ins.data, FALSE))
                    /\ fcPc' = Set(fcPc, c, "idle")
             ELSE IF row.submission_key # NULL /\ isUniqueViolation(ins.error)
               THEN /\ fcPc' = Set(fcPc, c, "read")
                    /\ UNCHANGED fcOut
             ELSE /\ fcOut' = Set(fcOut, c, FormThrow(FormError(500, "DB_WRITE_FAILED")))
                  /\ fcPc' = Set(fcPc, c, "idle")
  /\ UNCHANGED <<journal, payments, nextPayId, hvars, dvars, fcLeft, fcIn, faults, env, xvars>>

\* createFormSubmission, lines 238-257: the read of the existing row after the
\* unique violation
FormRead(c) ==
  /\ fcPc[c] = "read"
  /\ \E io \in Failures :
       LET existing == IF io THEN [error |-> "io", data |-> NoSub]
                             ELSE SelectSubmissionByKey(submissions, FormRowOf(fcIn[c]))
       IN fcOut' = Set(fcOut, c,
            IF existing.error # NULL
              THEN FormThrow(FormError(500, "DB_READ_FAILED"))
              ELSE FormResult(existing.data, TRUE))
  /\ fcPc' = Set(fcPc, c, "idle")
  /\ UNCHANGED <<journal, payments, submissions, nextPayId, nextSubId, hvars, dvars,
                 fcLeft, fcIn, faults, env, xvars>>

----------------------------------------------------------------------------
(* handleSubmitPaidForm: the form_submissions row, then the PaymentIntent *)

\* bound: calls of handleSubmitPaidForm in a run
MaxPaidCalls == 3

\* APP_ENV of a deployed function (not "local")
APP_ENV == "prod"

SubmitPaidFormError(statusCode, code) == [name |-> "SubmitPaidFormError", message |-> code]

\* payloads of the passport form, as the JSON text the client sent: the same
\* members in two orders, another tier, and no tier
PayloadAp1 == "{choice:ap-1,qty:2}"
PayloadAp1Reordered == "{qty:2,choice:ap-1}"
PayloadAp2 == "{choice:ap-2}"
PayloadNoTier == "{}"

\* cleanStr: a trimmed non-empty string, or null
cleanStr(v) == IF v = NULL \/ Trim(v) = "" THEN NULL ELSE Trim(v)

\* getPayloadTier(payload, "choice")
getPayloadTier(payload) ==
  CASE payload \in {PayloadAp1, PayloadAp1Reordered} -> "ap-1"
    [] payload = PayloadAp2 -> "ap-2"
    [] OTHER -> NULL

\* PAID_FORM_CATALOG[site][formSlug].tiers[tier].amountCents; 0 for no entry
PAID_FORM_CATALOG(site, formSlug, tier) ==
  IF site = "resinaro" /\ formSlug = "passport_appointment_12plus"
    THEN CASE tier = "ap-1" -> 4000
           [] tier = "ap-2" -> 7800
           [] tier = "ap-3" -> 11500
           [] OTHER -> 0
    ELSE 0

\* normalizeCurrency: trim and lower-case
normalizeCurrency(v) == ToLower(Trim(v))

\* resolvePricing and the price check of lines 590-602: the error thrown, or
\* NoErr with the amount of the catalog
resolvePricing(body) ==
  LET tier == getPayloadTier(body.payload)
      amount == PAID_FORM_CATALOG(body.site, body.formSlug, tier)
  IN IF tier = NULL
       THEN [err |-> SubmitPaidFormError(400, "PRICING_INPUT_MISSING"), amountCents |-> 0]
     ELSE IF amount = 0
       THEN [err |-> SubmitPaidFormError(400, "PRICE_TIER_UNKNOWN"), amountCents |-> 0]
     ELSE IF APP_ENV # "local" /\ (body.payment.amountCents # amount
                                    \/ normalizeCurrency(body.payment.currency) # "gbp")
       THEN [err |-> SubmitPaidFormError(400, "PRICE_MISMATCH"), amountCents |-> 0]
     ELSE [err |-> NoErr, amountCents |-> amount]

\* /^[a-zA-Z0-9:_-]+$/ on the keys of the model
KeyCharsValid(s) == s # "key 0001!"

\* normalizeIdempotencyKey: null for a blank key, an error for a key with other
\* characters, else the trimmed key
normalizeIdempotencyKey(v) ==
  LET s == cleanStr(v)
  IN IF s = NULL THEN [err |-> NoErr, key |-> NULL]
     ELSE IF ~KeyCharsValid(s)
       THEN [err |-> SubmitPaidFormError(400, "IDEMPOTENCY_KEY_INVALID"), key |-> NULL]
     ELSE [err |-> NoErr, key |-> s]

\* stableStringify on a payload: the members sorted by key
stableStringify(payload) ==
  IF payload = PayloadAp1Reordered THEN PayloadAp1 ELSE payload

\* sha256Base64Url(basis).slice(0, 48): a digest that tells apart the bases of
\* the model, written as the text it is computed from
sha256Base64Url(basis) ==
  basis.site \o "|" \o basis.formSlug \o "|" \o basis.email \o "|" \o basis.sourceUrl
    \o "|" \o basis.payload

\* a key that is drawn afresh in every call when the client sent none
buildIdempotencyKeyPerCall(body) ==
  LET provided == normalizeIdempotencyKey(body.idempotencyKey)
  IN IF provided.err # NoErr \/ provided.key # NULL
       THEN provided
       ELSE [err |-> NoErr,
             key |-> <<"sf_u1", "sf_u2", "sf_u3", "sf_u4", "sf_u5", "sf_u6", "sf_u7">>[fcLeft]]

\* buildIdempotencyKey: the key the client sent, or sf_ and the digest of the
\* stable fields of the request
buildIdempotencyKey(body) ==
  LET provided == normalizeIdempotencyKey(body.idempotencyKey)
  IN IF provided.err # NoErr \/ provided.key # NULL
       THEN provided
       ELSE [err |-> NoErr,
             key |-> "sf_" \o sha256Base64Url(
                       [site |-> body.site, formSlug |-> body.formSlug,
                        email |-> body.email, sourceUrl |-> body.sourceUrl,
                        payload |-> stableStringify(body.payload)])]

\* a request of the model that passes SubmitPaidFormSchema
PaidBody(payload, amountCents, idempotencyKey) ==
  [site |-> "resinaro", formSlug |-> "passport_appointment_12plus", email |-> "a@x.io",
   sourceUrl |-> NULL, payload |-> payload,
   payment |-> [amountCents |-> amountCents, currency |-> "GBP"],
   idempotencyKey |-> idempotencyKey]

\* requests with and without a key (NULL is an absent key), the key with blanks
\* around it, and three requests that are refused before any write
PaidBodies ==
  {PaidBody(PayloadAp1, 4000, k) : k \in {NULL, "key_0001", " key_0001 "}}
    \cup {PaidBody(PayloadAp1Reordered, 4000, NULL), PaidBody(PayloadAp2, 7800, "key_0001"),
          PaidBody(PayloadAp1, 100, NULL), PaidBody(PayloadNoTier, 4000, NULL),
          PaidBody(PayloadAp1, 4000, "key 0001!")}

NoPaidBody == PaidBody(NULL, 0, NULL)

NoPaidOut == [kind |-> "none", submissionId |-> NULL, clientSecret |-> NULL,
              stripeIdempotencyKey |-> NULL, err |-> NoErr]

PaidThrow(e) == [NoPaidOut EXCEPT !.kind = "throw", !.err = e]

\* Stripe: ids of PaymentIntents in the order they are created
IntentName(n) == <<"pi_a", "pi_b", "pi_c", "pi_d", "pi_e", "pi_f", "pi_g">>[n]

NoIntent == [id |-> NULL, idempotency_key |-> NULL,
             params |-> [amount |-> 0, currency |-> NULL, form_submission_id |-> NULL,
                         submission_key |-> NULL]]

\* stripe.paymentIntents.create(params, {idempotencyKey}): a key Stripe has seen
\* returns the PaymentIntent made with it when the parameters are the same, and
\* is refused when they differ; a new key creates a PaymentIntent
CreatePaymentIntent(t, key, params) ==
  LET hit == {p \in t : p.idempotency_key = key}
  IN IF hit # {}
       THEN LET old == CHOOSE p \in hit : TRUE
            IN IF old.params = params
                 THEN [error |-> NULL, data |-> old, table |-> t]
                 ELSE [error |-> "idempotency_error", data |-> NoIntent, table |-> t]
       ELSE LET new == [id |-> IntentName(Cardinality(t) + 1), idempotency_key |-> key,
                        params |-> params]
            IN [error |-> NULL, data |-> new, table |-> t \cup {new}]

\* how a call to Stripe can end: answered, refused or failed without effect, or
\* carried out with the answer lost
StripeOutcomes == IF faults THEN {"ok", "error", "lost"} ELSE {"ok"}

\* handleSubmitPaidForm, lines 559-626: parse, price, derive submissionKey, and
\* call createFormSubmission with status pending_payment
PaidCall(c, body) ==
  /\ pfPc[c] = "idle"
  /\ \A k \in FormCallers : k < c => pfPc[k] # "idle"
  /\ fcLeft > 0
  /\ fcLeft' = fcLeft - 1
  /\ pfIn' = Set(pfIn, c, body)
  /\ LET pricing == resolvePricing(body)
         built == buildIdempotencyKey(body)
     IN IF pricing.err # NoErr \/ built.err # NoErr
          THEN /\ pfOut' = Set(pfOut, c, PaidThrow(IF pricing.err # NoErr
                                                     THEN pricing.err ELSE built.err))
               /\ UNCHANGED <<pfPc, fcPc, fcIn, fcOut>>
          ELSE /\ pfOut' = Set(pfOut, c, NoPaidOut)
               /\ pfPc' = Set(pfPc, c, "form")
               /\ fcIn' = Set(fcIn, c, [site |-> body.site, formSlug |-> body.formSlug,
                                        submissionKey |-> built.key,
                                        status |-> "pending_payment",
                                        payload |-> body.payload])
               /\ fcPc' = Set(fcPc, c, "insert")
               /\ fcOut' = Set(fcOut, c, NoFormOut)
  /\ UNCHANGED <<journal, payments, submissions, nextPayId, nextSubId, hvars, dvars,
                 faults, env, intents, wvars, bvars>>

\* handleSubmitPaidForm, lines 628-677: createFormSubmission has returned or
\* thrown; create the PaymentIntent under the key pi_<submissionKey> and return
PaidIntent(c) ==
  /\ pfPc[c] = "form"
  /\ fcPc[c] = "idle"
  /\ pfPc' = Set(pfPc, c, "idle")
  /\ IF fcOut[c].kind = "throw"
       THEN /\ pfOut' = Set(pfOut, c, PaidThrow(fcOut[c].err))
            /\ UNCHANGED intents
       ELSE \E o \in StripeOutcomes :
              LET submissionKey == fcIn[c].submissionKey
                  stripeIdempotencyKey == "pi_" \o submissionKey
                  params == [amount |-> resolvePricing(pfIn[c]).amountCents,
                             currency |-> "gbp",
                             form_submission_id |-> fcOut[c].id,
                             submission_key |-> submissionKey]
                  res == CreatePaymentIntent(intents, stripeIdempotencyKey, params)
              IN IF o = "error" \/ (o = "ok" /\ res.error # NULL)
                   THEN /\ pfOut' = Set(pfOut, c, PaidThrow(Error("StripeError")))
                        /\ UNCHANGED intents
                 ELSE IF o = "lost"
                   THEN /\ pfOut' = Set(pfOut, c, PaidThrow(Error("StripeConnectionError")))
                        /\ intents' = res.table
                 ELSE /\ intents' = res.table
                      /\ pfOut' = Set(pfOut, c,
                           [kind |-> "row", submissionId |-> fcOut[c].id,
                            clientSecret |-> res.data.id,
                            stripeIdempotencyKey |-> stripeIdempotencyKey,
                            err |-> NoErr])
  /\ UNCHANGED <<journal, payments, submissions, nextPayId, nextSubId, hvars, dvars,
                 fvars, pfIn, faults, env, wvars, bvars>>

----------------------------------------------------------------------------
(* makeFetch: the fetch wrapper of the store client *)

\* bound: requests made through the wrapper in a run
MaxRequests == 2

MAX_RETRIES == 2

\* a retry policy that also repeats writes
RetryableMethodsWithWrites == {"GET", "HEAD", "OPTIONS", "POST", "PATCH", "DELETE"}

\* line 61: only safe methods are retried
RETRYABLE_METHODS == {"GET", "HEAD", "OPTIONS"}

RETRYABLE_STATUS == {429, 502, 503, 504}

\* String.prototype.toUpperCase on the method names of the model
ToUpper(s) ==
  CASE s = "get" -> "GET"
    [] s = "post" -> "POST"
    [] OTHER -> s

\* init.method as the caller passes it (NULL: no method given)
Methods == {NULL, "get", "GET", "HEAD", "OPTIONS", "post", "POST", "PATCH", "DELETE"}

\* line 125: (init?.method ?? "GET").toUpperCase()
MethodOf(m) == ToUpper(IF m = NULL THEN "GET" ELSE m)

\* how one underlying fetch settles: a response with a status, or a rejection
\* (a network error, or the abort of the timeout)
FetchOutcomes ==
  {[kind |-> "res", status |-> s, message |-> NULL] : s \in {200, 404, 429, 503}}
    \cup {[kind |-> "err", status |-> 0, message |-> m] : m \in {"network", "aborted"}}

NoFetchOut == [kind |-> "none", status |-> 0, message |-> NULL]

\* the caller makes a request through the wrapper
FetchCall(m) ==
  /\ fwPc = "idle"
  /\ fwCalls < MaxRequests
  /\ fwCalls' = fwCalls + 1
  /\ fwMethod' = m
  /\ fwAttempt' = 0
  /\ fwSent' = 0
  /\ fwOut' = NoFetchOut
  /\ fwPc' = "fetch"
  /\ UNCHANGED <<journal, payments, submissions, nextPayId, nextSubId, hvars, dvars,
                 fvars, faults, env, pvars, bvars>>

\* lines 132-171: one underlying fetch settles; the wrapper returns the
\* response, throws supabase_fetch_failed, or goes to sleep before another attempt
FetchSettle ==
  /\ fwPc = "fetch"
  /\ fwSent' = fwSent + 1
  /\ \E o \in FetchOutcomes :
       LET method == MethodOf(fwMethod)
           again == /\ method \in RETRYABLE_METHODS
                    /\ o.kind = "res" => o.status \in RETRYABLE_STATUS
                    /\ fwAttempt < MAX_RETRIES
       IN IF again
            THEN /\ fwAttempt' = fwAttempt + 1
                 /\ fwPc' = "sleep"
                 /\ UNCHANGED fwOut
            ELSE /\ fwPc' = "idle"
                 /\ fwOut' = IF o.kind = "res"
                               THEN o
                               ELSE [kind |-> "throw", status |-> 0,
                                     message |-> "supabase_fetch_failed"]
                 /\ UNCHANGED fwAttempt
  /\ UNCHANGED <<journal, payments, submissions, nextPayId, nextSubId, hvars, dvars,
                 fvars, faults, env, pvars, bvars, fwCalls, fwMethod>>

\* lines 151 and 163: the timer of sleep(jitter(200 * 2^attempt)) fires
FetchWake ==
  /\ fwPc = "sleep"
  /\ fwPc' = "fetch"
  /\ UNCHANGED <<journal, payments, submissions, nextPayId, nextSubId, hvars, dvars,
                 fvars, faults, env, pvars, bvars, fwCalls, fwMethod, fwAttempt, fwSent,
                 fwOut>>

----------------------------------------------------------------------------
(* apiHandler: the Lambda entry point and its runtime bootstrap *)

\* bound: handler invocations of one container in a run
MaxInvocations == 3

\* a || b of JavaScript on strings (NULL stands for undefined)
OrElse(a, b) == IF a # NULL /\ a # "" THEN a ELSE b

SecretKeys ==
  {"SUPABASE_URL", "SUPABASE_SERVICE_ROLE_KEY", "STRIPE_SECRET_KEY", "STRIPE_WEBHOOK_SECRET"}

\* process.env of a container before its first invocation: on Lambda or not,
\* with or without the secret's ARN and region, some settings already present
BootEnvs ==
  {[AWS_LAMBDA_FUNCTION_NAME |-> fn,
    CONFIG_SECRET_ARN |-> arn,
    CONFIG_SECRET_REGION |-> r1,
    AWS_REGION |-> r2,
    SUPABASE_URL |-> u,
    SUPABASE_SERVICE_ROLE_KEY |-> NULL,
    STRIPE_SECRET_KEY |-> k,
    STRIPE_WEBHOOK_SECRET |-> "whsec_env"] :
     fn \in {NULL, "api-fn"}, arn \in {NULL, "arn:secret"}, r1 \in {NULL, " "},
     r2 \in {NULL, "eu-west-2"}, u \in {NULL, " ", "https://db.env"},
     k \in {NULL, "sk_env"}}

SecretTextFull == "{SUPABASE_URL, SUPABASE_SERVICE_ROLE_KEY, STRIPE_SECRET_KEY, STRIPE_WEBHOOK_SECRET}"
SecretTextPartial == "{SUPABASE_URL, SUPABASE_SERVICE_ROLE_KEY: blank, STRIPE_WEBHOOK_SECRET}"

\* JSON.parse of the SecretString: the object, or a SyntaxError
JsonParse(s) ==
  CASE s = SecretTextFull ->
         [err |-> FALSE,
          json |-> [SUPABASE_URL |-> " https://db.secret ",
                    SUPABASE_SERVICE_ROLE_KEY |-> "srk_secret",
                    STRIPE_SECRET_KEY |-> "sk_secret",
                    STRIPE_WEBHOOK_SECRET |-> "whsec_secret"]]
    [] s = SecretTextPartial ->
         [err |-> FALSE,
          json |-> [SUPABASE_URL |-> "https://db.secret",
                    SUPABASE_SERVICE_ROLE_KEY |-> " ",
                    STRIPE_SECRET_KEY |-> NULL,
                    STRIPE_WEBHOOK_SECRET |-> "whsec_secret"]]
    [] OTHER -> [err |-> TRUE, json |-> [k \in SecretKeys |-> NULL]]

\* how client.send(GetSecretValueCommand) settles: it rejects, or it answers
\* with a SecretString (none, not JSON, or one of the JSON texts)
SecretResponses ==
  {[rejected |-> TRUE, SecretString |-> NULL]}
    \cup {[rejected |-> FALSE, SecretString |-> s] :
            s \in {NULL, "not json", SecretTextFull, SecretTextPartial}}

\* a setIfMissing that takes the secret's value over the environment's
setIfMissingOverwrites(e, key, value) ==
  IF isNonEmptyString(value) THEN [e EXCEPT ![key] = Trim(value)] ELSE e

\* lines 12-15: process.env after setIfMissing(key, value)
setIfMissing(e, key, value) ==
  IF isNonEmptyString(e[key])
    THEN e
    ELSE IF isNonEmptyString(value) THEN [e EXCEPT ![key] = Trim(value)] ELSE e

\* lines 47-51: the four settings mapped from the secret, in order
MapSecret(e, json) ==
  LET e1 == setIfMissing(e, "SUPABASE_URL", json.SUPABASE_URL)
      e2 == setIfMissing(e1, "SUPABASE_SERVICE_ROLE_KEY", json.SUPABASE_SERVICE_ROLE_KEY)
      e3 == setIfMissing(e2, "STRIPE_SECRET_KEY", json.STRIPE_SECRET_KEY)
  IN setIfMissing(e3, "STRIPE_WEBHOOK_SECRET", json.STRIPE_WEBHOOK_SECRET)

\* lines 22-30: the bootstrap has a secret to fetch
NeedsSecret(e) ==
  /\ isNonEmptyString(e.AWS_LAMBDA_FUNCTION_NAME)
  /\ isNonEmptyString(e.CONFIG_SECRET_ARN)
  /\ isNonEmptyString(OrElse(e.CONFIG_SECRET_REGION, e.AWS_REGION))

\* lines 58-59 and 17-33: an invocation of handler calls bootstrapRuntimeEnv,
\* which returns the cached promise, or starts the bootstrap (up to its await
\* of the secret, or to its early return) and caches its promise
BootInvoke(i) ==
  /\ bhPc[i] = "idle"
  /\ bhCalls < MaxInvocations
  /\ bhCalls' = bhCalls + 1
  /\ bhPc' = [bhPc EXCEPT ![i] = "awaiting"]
  /\ IF bootstrapPromise # "null"
       THEN UNCHANGED <<bootstrapPromise, secretFetches>>
       ELSE IF NeedsSecret(env)
              THEN /\ bootstrapPromise' = "pending"
                   /\ secretFetches' = secretFetches + 1
              ELSE /\ bootstrapPromise' = "fulfilled"
                   /\ UNCHANGED secretFetches
  /\ UNCHANGED <<journal, payments, submissions, nextPayId, nextSubId, hvars, dvars,
                 fvars, faults, env, pvars, wvars>>

\* lines 33-51: the secret arrives (or the call rejects) and the bootstrap
\* runs to its end
BootSettle ==
  /\ bootstrapPromise = "pending"
  /\ \E resp \in SecretResponses :
       LET parsed == JsonParse(resp.SecretString)
       IN IF resp.rejected \/ ~isNonEmptyString(resp.SecretString) \/ parsed.err
            THEN /\ bootstrapPromise' = "rejected"
                 /\ UNCHANGED env
            ELSE /\ bootstrapPromise' = "fulfilled"
                 /\ env' = MapSecret(env, parsed.json)
  /\ UNCHANGED <<journal, payments, submissions, nextPayId, nextSubId, hvars, dvars,
                 fvars, faults, pvars, wvars, secretFetches, bhPc, bhCalls>>

\* lines 59-63: the await of the promise ends; the invocation loads and calls
\* the core handler, or throws the bootstrap's error
BootResume(i) ==
  /\ bhPc[i] = "awaiting"
  /\ bootstrapPromise \in {"fulfilled", "rejected"}
  /\ bhPc' = [bhPc EXCEPT ![i] = IF bootstrapPromise = "fulfilled" THEN "core" ELSE "threw"]
  /\ UNCHANGED <<journal, payments, submissions, nextPayId, nextSubId, hvars, dvars,
                 fvars, faults, env, pvars, wvars, bootstrapPromise, secretFetches, bhCalls>>

\* the invocation ends
BootFinish(i) ==
  /\ bhPc[i] \in {"core", "threw"}
  /\ bhPc' = [bhPc EXCEPT ![i] = "idle"]
  /\ UNCHANGED <<journal, payments, submissions, nextPayId, nextSubId, hvars, dvars,
                 fvars, faults, env, pvars, wvars, bootstrapPromise, secretFetches, bhCalls>>

----------------------------------------------------------------------------

InitTables ==
  /\ journal = [id \in EventIds |-> NoRow]
  /\ payments = {}
  /\ submissions = {PaidSubmission}
  /\ nextPayId = 1
  /\ nextSubId = 2

InitLocals ==
  /\ pc = [i \in Invs |-> "idle"]
  /\ ev = [i \in Invs |-> NULL]
  /\ claim = [i \in Invs |-> "none"]
  /\ err = [i \in Invs |-> NoErr]
  /\ result = [i \in Invs |-> NoResult]
  /\ attempt = [i \in Invs |-> 0]
  /\ paymentId = [i \in Invs |-> 0]
  /\ seen = [i \in Invs |-> "none"]
  /\ http = [i \in Invs |-> NoResponse]
  /\ fcPc = [c \in FormCallers |-> "idle"]
  /\ fcIn = [c \in FormCallers |-> NoFormInput]
  /\ fcOut = [c \in FormCallers |-> NoFormOut]
  /\ delivered = [id \in EventIds |-> 0]
  /\ inserts = [id \in EventIds |-> 0]
  /\ started = 0
  /\ dcPc = [c \in Callers |-> "idle"]
  /\ dcIn = [c \in Callers |-> NoInput]
  /\ dcOut = [c \in Callers |-> NoOut]
  /\ pfPc = [c \in FormCallers |-> "idle"]
  /\ pfIn = [c \in FormCallers |-> NoPaidBody]
  /\ pfOut = [c \in FormCallers |-> NoPaidOut]
  /\ intents = {}
  /\ fwCalls = 0
  /\ fwPc = "idle"
  /\ fwMethod = NULL
  /\ fwAttempt = 0
  /\ fwSent = 0
  /\ fwOut = NoFetchOut
  /\ bootstrapPromise = "null"
  /\ secretFetches = 0
  /\ bhPc = [i \in Invs |-> "idle"]
  /\ bhCalls = 0

\* store and notifier calls may fail; the CRM webhook is set up
InitEnv ==
  /\ faults = TRUE
  /\ env = ConfiguredEnv

\* Deliveries of events to handleStripeEvent
Init ==
  /\ InitTables
  /\ InitLocals
  /\ InitEnv
  /\ dcLeft = 0
  /\ fcLeft = 0

Next ==
  \/ \E i \in Invs, id \in CoreEvents : Deliver(i, id)
  \/ \E i \in Invs : ClaimInsert(i)
  \/ \E i \in Invs : ClaimFetch(i)
  \/ \E i \in Invs : ClaimUpdate(i)
  \/ \E i \in Invs : Ledger(i)
  \/ \E i \in Invs : SubUpdate(i)
  \/ \E i \in Invs : Notify(i)
  \/ \E i \in Invs : NotifyWait(i)
  \/ \E i \in Invs : MarkSucceeded(i)
  \/ \E i \in Invs : MarkFailed(i)
  \/ \E i \in Invs : Finish(i)

Spec == Init /\ [][Next]_vars

\* Deliveries of payment events whose payload may be malformed
NextPayload ==
  \/ \E i \in Invs, id \in PayloadEvents : DeliverPayload(i, id)
  \/ \E i \in Invs : ClaimInsert(i)
  \/ \E i \in Invs : ClaimFetch(i)
  \/ \E i \in Invs : ClaimUpdate(i)
  \/ \E i \in Invs : Ledger(i)
  \/ \E i \in Invs : SubUpdate(i)
  \/ \E i \in Invs : Notify(i)
  \/ \E i \in Invs : NotifyWait(i)
  \/ \E i \in Invs : MarkSucceeded(i)
  \/ \E i \in Invs : MarkFailed(i)
  \/ \E i \in Invs : Finish(i)

SpecPayload == Init /\ [][NextPayload]_vars

\* Calls of createPaymentRecord, from the webhook and from other callers
InitLedger ==
  /\ InitTables
  /\ InitLocals
  /\ InitEnv
  /\ dcLeft = MaxDirectCalls
  /\ fcLeft = 0

NextLedger ==
  \/ \E c \in Callers, input \in DirectInputs : DirectCall(c, input)
  \/ \E c \in Callers : DirectUpsert(c)
  \/ \E c \in Callers : DirectReadSession(c)

SpecLedger == InitLedger /\ [][NextLedger]_vars

\* Calls of createFormSubmission
InitForms ==
  /\ InitTables
  /\ InitLocals
  /\ InitEnv
  /\ dcLeft = 0
  /\ fcLeft = MaxFormCalls

NextForms ==
  \/ \E c \in FormCallers, input \in FormInputs : FormCall(c, input)
  \/ \E c \in FormCallers : FormInsert(c)
  \/ \E c \in FormCallers : FormRead(c)

SpecForms == InitForms /\ [][NextForms]_vars

\* Concurrent calls of handleSubmitPaidForm
InitPaid ==
  /\ InitTables
  /\ InitLocals
  /\ InitEnv
  /\ dcLeft = 0
  /\ fcLeft = MaxPaidCalls

NextPaid ==
  \/ \E c \in FormCallers, body \in PaidBodies : PaidCall(c, body)
  \/ \E c \in FormCallers : FormInsert(c)
  \/ \E c \in FormCallers : FormRead(c)
  \/ \E c \in FormCallers : PaidIntent(c)

SpecPaid == InitPaid /\ [][NextPaid]_vars

\* Deliveries of valid payment events of several tenants, to a deployment with
\* or without the CRM webhook settings, with or without failing calls
InitTenant ==
  /\ InitTables
  /\ InitLocals
  /\ faults \in BOOLEAN
  /\ env \in Envs
  /\ dcLeft = 0
  /\ fcLeft = 0

NextTenant ==
  \/ \E i \in Invs, id \in TenantEvents : DeliverTenant(i, id)
  \/ \E i \in Invs : ClaimInsert(i)
  \/ \E i \in Invs : ClaimFetch(i)
  \/ \E i \in Invs : ClaimUpdate(i)
  \/ \E i \in Invs : Ledger(i)
  \/ \E i \in Invs : SubUpdate(i)
  \/ \E i \in Invs : Notify(i)
  \/ \E i \in Invs : NotifyWait(i)
  \/ \E i \in Invs : MarkSucceeded(i)
  \/ \E i \in Invs : MarkFailed(i)
  \/ \E i \in Invs : Finish(i)

SpecTenant == InitTenant /\ [][NextTenant]_vars

\* Deliveries to containers that may die while they hold a claim
NextCrash ==
  \/ \E i \in Invs, id \in CrashEvents : DeliverCrash(i, id)
  \/ \E i \in Invs : ClaimInsert(i)
  \/ \E i \in Invs : ClaimFetch(i)
  \/ \E i \in Invs : ClaimUpdate(i)
  \/ \E i \in Invs : Ledger(i)
  \/ \E i \in Invs : SubUpdate(i)
  \/ \E i \in Invs : Notify(i)
  \/ \E i \in Invs : NotifyWait(i)
  \/ \E i \in Invs : MarkSucceeded(i)
  \/ \E i \in Invs : MarkFailed(i)
  \/ \E i \in Invs : Finish(i)
  \/ \E i \in Invs : Crash(i)

SpecCrash == Init /\ [][NextCrash]_vars

---------------------------------------------------------------------------------------------------------------------------------------------------
(* Redelivery without a bound on the number of deliveries: the provider     *)
(* keeps redelivering every event, an invocation suspended at an await      *)
(* resumes, and the store and the notifier stop failing at some point.      *)

\* the store and the notifier have recovered: no call fails from here on
FaultsEnd ==
  /\ faults
  /\ faults' = FALSE
  /\ UNCHANGED <<journal, payments, submissions, nextPayId, nextSubId, hvars, dvars, fvars,
                 env, xvars>>

\* any step of invocation i after its start
Step(i) ==
  \/ ClaimInsert(i) \/ ClaimFetch(i) \/ ClaimUpdate(i) \/ Ledger(i) \/ SubUpdate(i)
  \/ Notify(i) \/ NotifyWait(i) \/ MarkSucceeded(i) \/ MarkFailed(i) \/ Finish(i)

\* the events that keep being redelivered: a valid payment event and a
\* malformed one
RetryEvents == {"evt_1", "evt_3"}

NextRetry ==
  \/ \E i \in Invs, id \in RetryEvents : Redeliver(i, id)
  \/ \E i \in Invs : ClaimInsert(i)
  \/ \E i \in Invs : ClaimFetch(i)
  \/ \E i \in Invs : ClaimUpdate(i)
  \/ \E i \in Invs : Ledger(i)
  \/ \E i \in Invs : SubUpdate(i)
  \/ \E i \in Invs : Notify(i)
  \/ \E i \in Invs : NotifyWait(i)
  \/ \E i \in Invs : MarkSucceeded(i)
  \/ \E i \in Invs : MarkFailed(i)
  \/ \E i \in Invs : Finish(i)
  \/ FaultsEnd

FairRetry ==
  /\ WF_vars(FaultsEnd)
  /\ \A i \in Invs : WF_vars(Step(i))
  /\ \A id \in RetryEvents : SF_vars(\E i \in Invs : Redeliver(i, id))

SpecRetry == Init /\ [][NextRetry]_vars /\ FairRetry

\* Deliveries of the event the CRM is told about, one after the other, to
\* invocations that keep running: an awaited call settles (a fetch by its answer or by its timeout of
\* 6000 ms) and a timer fires
NextNotifier ==
  \/ \E i \in Invs : DeliverNotifier(i, "evt_1")
  \/ \E i \in Invs : ClaimInsert(i)
  \/ \E i \in Invs : ClaimFetch(i)
  \/ \E i \in Invs : ClaimUpdate(i)
  \/ \E i \in Invs : Ledger(i)
  \/ \E i \in Invs : SubUpdate(i)
  \/ \E i \in Invs : Notify(i)
  \/ \E i \in Invs : NotifyWait(i)
  \/ \E i \in Invs : MarkSucceeded(i)
  \/ \E i \in Invs : MarkFailed(i)
  \/ \E i \in Invs : Finish(i)

FairNotifier == \A i \in Invs : WF_vars(Step(i))

SpecNotifier == Init /\ [][NextNotifier]_vars /\ FairNotifier

-----
(* Claim protocol *)

Finished(i) == pc[i] \in {"returned", "raised"}

DedupedResult == [ok |-> TRUE, handled |-> FALSE, deduped |-> TRUE, paymentId |-> 0]

\* C1 (as stated): of the invocations that start on an event id without a journal
\* row, one gets claimed=true with inserted=true and every other one that gets an
\* answer from claimStripeEvent is refused with already_processing or
\* already_succeeded.
C1_OthersAlwaysRefused ==
  /\ \A id \in EventIds : inserts[id] <= 1
  /\ \A i \in Invs :
       (seen[i] = "absent" /\ claim[i] # "none")
          => claim[i] \in {"inserted", "already_processing", "already_succeeded"}

\* C1 (amended): for every event id at most one claimStripeEvent ever returns
\* inserted=true; an invocation that started on an event id without a row and did
\* not insert it is refused with already_processing or already_succeeded or, when
\* the row has been marked failed in the meantime, re-claims it with
\* inserted=false; it never finds the row missing.
C1_SingleInsert ==
  /\ \A id \in EventIds : inserts[id] <= 1
  /\ \A i \in Invs :
       (seen[i] = "absent" /\ claim[i] # "none")
          => claim[i] \in {"inserted", "already_processing", "already_succeeded",
                           "reclaimed"}
  /\ \A i, k \in Invs :
       (i # k /\ ev[i] = ev[k] /\ claim[i] = "inserted") => claim[k] # "inserted"

\* two invocations raced on a fresh event id: one inserted, the other was refused
C1_Witness ==
  \E i, k \in Invs :
    /\ i # k /\ ev[i] = ev[k]
    /\ seen[i] = "absent" /\ seen[k] = "absent"
    /\ claim[i] = "inserted" /\ claim[k] = "already_processing"

\* C2: the re-claim is an atomic failed -> processing transition: whenever
\* claimStripeEvent returns claimed=true with inserted=false, the row it took
\* was failed at the moment of the update, so that of the invocations racing for
\* a failed row at most one gets the claim.
C2_ReclaimOnlyFromFailed ==
  [][\A i \in Invs :
       (claim[i] # "reclaimed" /\ claim'[i] = "reclaimed")
          => journal[ev[i]].status = "failed"]_vars

\* C3: for each event id at most one invocation is inside the claimed critical
\* section (claim granted, terminal mark not yet completed).
C3_MutualExclusion ==
  \A i, k \in Invs :
    (i # k /\ InCritical(i) /\ InCritical(k)) => ev[i] # ev[k]

AllowedStatusChange(old, new) ==
  \/ old = "absent" /\ new = "processing"
  \/ old = "processing" /\ new \in {"succeeded", "failed"}
  \/ old = "failed" /\ new = "processing"

\* C4: every change of a journal row's status is (new row) -> processing,
\* processing -> succeeded, processing -> failed or failed -> processing;
\* succeeded is absorbing.
C4_StatusStateMachine ==
  [][\A id \in EventIds :
       journal'[id].status # journal[id].status
          => AllowedStatusChange(journal[id].status, journal'[id].status)]_vars

\* C5: a redelivery of an event whose journal row is succeeded resolves to
\* already_succeeded, does not raise (a failed read of the row apart), returns
\* {ok: true, handled: false, deduped: true} and never enters the critical
\* section, so that it writes neither payments nor form_submissions nor the row.
C5_ReplaySafety ==
  \A i \in Invs :
    seen[i] = "succeeded" =>
      /\ claim[i] \in {"none", "already_succeeded"}
      /\ ~InCritical(i)
      /\ pc[i] = "returned" => result[i] = DedupedResult
      /\ pc[i] = "raised" => err[i] \in {Error("stripe_events insert failed"),
                                         Error("stripe_events fetch failed")}

\* the tables and the notifier's deliveries
effects == <<journal, payments, submissions, nextPayId, delivered>>

\* C12 (as stated): an invocation refused with already_processing raises
\* stripe_event_already_processing and writes nothing, and of two invocations
\* racing on a fresh event id exactly one proceeds to the business logic.
C12_ExactlyOneProceeds ==
  /\ \A i \in Invs :
       claim[i] = "already_processing"
          => pc[i] = "raised" /\ err[i] = Error("stripe_event_already_processing")
  /\ \A i, k \in Invs :
       (i # k /\ ev[i] = ev[k] /\ seen[i] = "absent" /\ seen[k] = "absent")
          => ~(Claimed(i) /\ Claimed(k))

\* C12 (amended): an invocation refused with already_processing raises
\* stripe_event_already_processing; no step it takes, from its start to the
\* release of its slot, changes payments, form_submissions or stripe_events or
\* reaches the notifier.  Of two invocations racing on a fresh event id at most
\* one claims it by insert, and while that one is inside the critical section
\* the other is not (it can re-claim only a row the winner has marked failed).
C12_LosersDoNothing ==
  /\ [](\A i \in Invs :
         claim[i] = "already_processing"
            => /\ pc[i] = "raised"
               /\ err[i] = Error("stripe_event_already_processing")
               /\ result[i] = NoResult /\ paymentId[i] = 0)
  /\ [][\A i \in Invs :
         (pc'[i] # pc[i] /\ pc[i] \in {"claim_insert", "claim_fetch", "raised"}
            /\ ~(claim'[i] \in {"inserted", "reclaimed"}) /\ pc'[i] # "claim_update")
           => UNCHANGED effects]_vars
  /\ [](\A i, k \in Invs :
         (i # k /\ ev[i] = ev[k] /\ claim[i] = "inserted" /\ InCritical(i))
            => /\ ~InCritical(k)
               /\ pc[k] # "claim_update"
               /\ claim[k] # "inserted")

\* two invocations raced on a fresh event id: the winner is inside the critical
\* section, the loser has raised stripe_event_already_processing
C12_Witness ==
  \E i, k \in Invs :
    /\ i # k /\ ev[i] = ev[k]
    /\ seen[i] = "absent" /\ seen[k] = "absent"
    /\ claim[i] = "inserted" /\ InCritical(i)
    /\ claim[k] = "already_processing" /\ pc[k] = "raised"

----------------------------------------------------------------------------
(* Notifier *)

NotifierError == Error("HTTP 500")

\* C6: for every event id the CRM POST is successfully delivered at most once,
\* whatever the deliveries, failures and re-claims of that event.
C6_NotifiedAtMostOnce == \A id \in EventIds : delivered[id] <= 1

\* C7: a notifier that fails on all its attempts never makes the invocation
\* enter the catch block or raise, and never becomes the row's last_error.
C7_NotifierFailureSwallowed ==
  /\ \A i \in Invs : pc[i] \in {"mark_failed", "raised"} => err[i] # NotifierError
  /\ \A id \in EventIds : journal[id].last_error # errMsg(NotifierError)

----------------------------------------------------------------------------
(* Ledger *)

SameMoney(u, v) == u.amount_cents = v.amount_cents /\ u.currency = v.currency

\* C8: a createPaymentRecord call whose stripe_payment_intent_id already has a
\* committed row leaves that row's amount_cents and currency as they were.
C8_FirstWriteWins ==
  [][\A c \in Callers :
       (dcPc[c] = "upsert" /\ dcPc'[c] # "upsert")
          => \A u \in payments :
               (u.stripe_payment_intent_id # NULL
                  /\ u.stripe_payment_intent_id = dcIn[c].stripePaymentIntentId)
                 => \E v \in payments' : v.id = u.id /\ SameMoney(u, v)]_vars

\* C9: the payments table holds at most one row per non-null
\* stripe_payment_intent_id and at most one per non-null
\* stripe_checkout_session_id (and one per id).
C9_LedgerUnique ==
  \A u, v \in payments :
    /\ (u.stripe_payment_intent_id # NULL
          /\ u.stripe_payment_intent_id = v.stripe_payment_intent_id) => u = v
    /\ (u.stripe_checkout_session_id # NULL
          /\ u.stripe_checkout_session_id = v.stripe_checkout_session_id) => u = v
    /\ u.id = v.id => u = v

\* two calls for the same payment intent both returned a row and one row is stored
\* for it, next to a row of another payment intent
C9_Witness ==
  /\ \A c \in Callers :
       /\ dcPc[c] = "idle" /\ dcOut[c].kind = "row"
       /\ dcIn[c].stripePaymentIntentId = "pi_1"
  /\ dcLeft = 0
  /\ Cardinality(payments) = 2

----------------------------------------------------------------------------
(* Failure handling of the critical section *)

\* C10 (as stated): an invocation that raises out of the critical section leaves
\* the journal row failed with last_error = the error's message, and raises that
\* same error.
C10_FailureAlwaysRecorded ==
  [][\A i \in Invs :
       (InCritical(i) /\ pc'[i] = "raised")
          => /\ journal'[ev[i]].status = "failed"
             /\ journal'[ev[i]].last_error = err[i].message
             /\ err'[i] = err[i]]_vars

\* C10 (amended): an exception inside the critical section reaches the caller
\* only through the catch block, which makes one best-effort attempt to mark the
\* row failed and then re-raises the same error unchanged; when that write goes
\* through, the row is failed with last_error = the error's message and a
\* processed_at, and when it does not the journal is left as it was.
C10_BestEffortFailureRecord ==
  [][\A i \in Invs :
       (InCritical(i) /\ pc'[i] = "raised")
          => /\ pc[i] = "mark_failed"
             /\ err'[i] = err[i]
             /\ err[i] # NoErr
             /\ \/ journal' = journal
                \/ journal' = [journal EXCEPT ![ev[i]] =
                                 [@ EXCEPT !.status = "failed",
                                           !.processed_at = nowIso,
                                           !.last_error = err[i].message]]]_vars

\* an invocation raised a ledger failure and the row records that failure
C10_Witness ==
  \E i \in Invs :
    /\ pc[i] = "raised" /\ Claimed(i)
    /\ err[i] = PaymentWriteError("Failed to write payment record")
    /\ journal[ev[i]].status = "failed"
    /\ journal[ev[i]].last_error = "Failed to write payment record"

----------------------------------------------------------------------------
(* Recovery of failed events *)

\* events whose payload passes the checks made before the ledger write
ValidEvents == {id \in EventIds : AfterClaim(Event(id)).pc # "mark_failed"}

\* the row is processing and no invocation is left that would ever write it
Stuck(id) ==
  /\ journal[id].status = "processing"
  /\ \A i \in Invs : ev[i] = id => pc[i] \notin (CriticalPcs \cup {"claim_update"})

----------------------------------------------------------------------------
(* HTTP boundary *)

Ack(handled) == jsonResponse(200, [ok |-> TRUE, handled |-> handled])
ServerError == jsonResponse(500, [ok |-> FALSE])

\* C13 (as stated): a delivery whose claim resolves to already_succeeded or
\* already_processing is answered 200 with handled=false.
C13_RefusedAnswered2xx ==
  \A i \in Invs :
    claim[i] \in {"already_succeeded", "already_processing"} => http[i] = Ack(FALSE)

\* C13 (amended): a delivery whose claim resolves to already_succeeded is
\* answered 200 with handled=false; one whose claim resolves to
\* already_processing makes handleStripeEvent throw and is answered 500.
C13_RefusedByStatus ==
  \A i \in Invs :
    /\ claim[i] = "already_succeeded" => http[i] = Ack(FALSE)
    /\ claim[i] = "already_processing" => http[i] = ServerError

\* a redelivery of a succeeded event has been acknowledged while a delivery that
\* found its event processing has been answered 500
C13_Witness ==
  \E i, k \in Invs :
    /\ claim[i] = "already_succeeded" /\ http[i].statusCode = 200
    /\ claim[k] = "already_processing" /\ http[k].statusCode = 500

----------------------------------------------------------------------------
(* Submission store *)

Returned(c) == fcPc[c] = "idle" /\ fcOut[c].kind = "row"

Keyed(c) == fcIn[c].submissionKey # NULL

SameFormKey(c, d) == SameKey(FormRowOf(fcIn[c]), FormRowOf(fcIn[d]))

\* C15: at most one form_submissions row exists per non-null (site, form_slug,
\* submission_key); a keyed call that returns deduped=false has just inserted the
\* row of its key, one that returns deduped=true returns the id of the row that
\* already held the key; two calls with the same key that have both returned
\* carry the same id and are not both deduped=false, and when they were the
\* first two calls and ran concurrently on a key without a row exactly one of
\* them is deduped=false.
C15_SubmissionDedup ==
  /\ [](\A u, v \in submissions :
         /\ (u.submission_key # NULL /\ SameKey(u, v)) => u = v
         /\ u.id = v.id => u = v)
  /\ [][\A c \in FormCallers :
         (Keyed(c) /\ fcPc[c] = "insert" /\ fcOut'[c].kind = "row")
            => /\ ~fcOut'[c].deduped
               /\ ~\E u \in submissions : SameKey(u, FormRowOf(fcIn[c]))
               /\ \E u \in submissions' :
                    SameKey(u, FormRowOf(fcIn[c])) /\ u.id = fcOut'[c].id]_vars
  /\ [][\A c \in FormCallers :
         (fcPc[c] = "read" /\ fcOut'[c].kind = "row")
            => /\ fcOut'[c].deduped
               /\ submissions' = submissions
               /\ \E u \in submissions :
                    SameKey(u, FormRowOf(fcIn[c])) /\ u.id = fcOut'[c].id]_vars
  /\ [](\A c, d \in FormCallers :
         (c # d /\ Returned(c) /\ Returned(d) /\ Keyed(c) /\ SameFormKey(c, d))
            => /\ fcOut[c].id = fcOut[d].id
               /\ fcOut[c].deduped \/ fcOut[d].deduped
               /\ (fcLeft = MaxFormCalls - 2 /\ ~SameKey(PaidSubmission, FormRowOf(fcIn[c])))
                     => fcOut[c].deduped # fcOut[d].deduped)

\* the first two calls ran concurrently with the same fresh key and both
\* returned: one row, one id, one deduped=false
C15_Witness ==
  \E c, d \in FormCallers :
    /\ c # d /\ Returned(c) /\ Returned(d) /\ Keyed(c) /\ SameFormKey(c, d)
    /\ fcLeft = MaxFormCalls - 2
    /\ ~SameKey(PaidSubmission, FormRowOf(fcIn[c]))
    /\ fcOut[c].id = fcOut[d].id
    /\ ~fcOut[c].deduped /\ fcOut[d].deduped
    /\ Cardinality({u \in submissions : SameKey(u, FormRowOf(fcIn[c]))}) = 1

\* C16: a createFormSubmission call whose (site, form_slug, submission_key)
\* already has a row changes no column of any form_submissions row, neither at
\* the insert that hits the conflict nor at the read that follows, whatever
\* status and payload the call carries.
C16_CreateOnce ==
  [][\A c \in FormCallers :
       (fcPc'[c] # fcPc[c] /\ fcPc[c] \in {"insert", "read"} /\ Keyed(c)
          /\ \E u \in submissions : SameKey(u, FormRowOf(fcIn[c])))
         => submissions' = submissions]_vars

\* a retry with another status and another payload got the stored row back, and
\* the stored row is as it was
C16_Witness ==
  \E c \in FormCallers :
    /\ Returned(c) /\ fcOut[c].deduped
    /\ fcOut[c].id = PaidSubmission.id
    /\ fcIn[c].payload # PaidSubmission.payload
    /\ FormRowOf(fcIn[c]).status # PaidSubmission.status
    /\ fcOut[c].status = PaidSubmission.status
    /\ PaidSubmission \in submissions

\* C17: a createFormSubmission call without submission_key that returns has
\* inserted one new row under an id no row had, and returns deduped=false; it
\* never takes the read of the idempotent path.
C17_KeylessNeverDeduped ==
  [][\A c \in FormCallers :
       (~Keyed(c) /\ fcPc[c] = "insert")
          => /\ fcPc'[c] # "read"
             /\ fcOut'[c].kind = "row"
                  => /\ ~fcOut'[c].deduped
                     /\ \A u \in submissions : u.id # fcOut'[c].id
                     /\ Cardinality(submissions') = Cardinality(submissions) + 1
                     /\ \E u \in submissions' :
                          /\ u.id = fcOut'[c].id
                          /\ u = [FormRowOf(fcIn[c]) EXCEPT !.id = u.id]]_vars

\* every call of the run carried the same keyless data and each left a row
C17_Witness ==
  /\ fcLeft = 0
  /\ \A c \in FormCallers : Returned(c) /\ ~fcOut[c].deduped
  /\ \E r \in {FormRowOf(x) : x \in FormInputs} :
       /\ r.submission_key = NULL
       /\ Cardinality({u \in submissions : [u EXCEPT !.id = NULL] = r}) = MaxFormCalls

----------------------------------------------------------------------------
(* Conversion of a submission *)

----------------------------------------------------------------------------
(* Malformed payment events *)

\* a payment_intent.succeeded event without an id, with an amount that is no
\* integer, or with a currency other than gbp, eur, usd
Malformed(id) ==
  /\ id \in EventIds
  /\ Event(id).type = "payment_intent.succeeded"
  /\ \/ Event(id).pi.id = NULL
     \/ Event(id).pi.amount.num % Event(id).pi.amount.den # 0
     \/ Event(id).pi.currency \notin {"GBP", "EUR", "USD", "gbp", "eur", "usd"}

----------------------------------------------------------------------------
(* Event types the handler ignores *)

Ignored(id) == id \in EventIds /\ Event(id).type # "payment_intent.succeeded"

----------------------------------------------------------------------------
(* A claim whose holder died *)

\* C21: once an invocation that holds the claim has crashed before a terminal
\* mark, the row of its event is processing in every later state, and no other
\* invocation of that event is inside the critical section.
C21_StuckForever ==
  \A i \in Invs :
    pc[i] = "crashed"
      => /\ journal[ev[i]].status = "processing"
         /\ \A k \in Invs : (k # i /\ ev[k] = ev[i]) => ~InCritical(k)

----------------------------------------------------------------------------
(* Ledger: both provider ids *)

IdentifierConflict == PaymentWriteError("Stripe identifiers conflict")

\* C22: the read by checkout session id that follows a collision on the session
\* index writes nothing; it returns the row it read as success only if that
\* row's stripe_payment_intent_id equals the input's, and raises the
\* identifier-conflict error only for a row whose payment intent id differs.
C22_ConflictResolved ==
  [][\A c \in Callers :
       (dcPc[c] = "read_cs" /\ dcPc'[c] = "idle")
          => /\ payments' = payments
             /\ dcOut'[c].kind = "row"
                  => /\ dcOut'[c].row.stripe_checkout_session_id
                          = dcIn[c].stripeCheckoutSessionId
                     /\ dcOut'[c].row.stripe_payment_intent_id
                          = dcIn[c].stripePaymentIntentId
             /\ dcOut'[c].err = IdentifierConflict
                  => \E u \in payments :
                       /\ u.stripe_checkout_session_id = dcIn[c].stripeCheckoutSessionId
                       /\ u.stripe_payment_intent_id # dcIn[c].stripePaymentIntentId]_vars

----------------------------------------------------------------------------
(* Ledger: validation *)

\* an input with an amount that is no positive integer, a currency outside
\* gbp, eur, usd, or neither provider id
Refused(input) ==
  \/ input.currency \notin {"gbp", "eur", "usd"}
  \/ input.amountCents.num % input.amountCents.den # 0
  \/ input.amountCents.num <= 0
  \/ input.stripePaymentIntentId = NULL /\ input.stripeCheckoutSessionId = NULL

\* C23: a createPaymentRecord call with a refused input throws a validation
\* error on the spot, without reaching the upsert, and the step of the call
\* itself writes nothing, so that every row of payments has amount_cents > 0 and
\* a non-null provider id.
C23_ValidatedBeforeWrite ==
  /\ [](\A u \in payments :
         /\ u.amount_cents > 0
         /\ u.stripe_payment_intent_id # NULL \/ u.stripe_checkout_session_id # NULL)
  /\ [](\A c \in Callers :
         (dcIn[c] # NoInput /\ Refused(dcIn[c]))
            => /\ dcPc[c] = "idle"
               /\ dcOut[c].kind = "throw"
               /\ dcOut[c].err.name \in {"PaymentValidationError", "ZodError"})
  /\ [][dcLeft' # dcLeft => payments' = payments /\ nextPayId' = nextPayId]_vars

\* a call with the amount 4000.5 and one with the currency GBP have been refused,
\* a valid call has written its row
C23_Witness ==
  /\ \E c, d \in Callers :
       /\ dcIn[c].amountCents = Num(8001, 2)
       /\ dcOut[c].err = PaymentValidationError("amountCents must be an integer")
       /\ dcIn[d].currency = "GBP"
       /\ dcOut[d].err.name = "ZodError"
  /\ payments # {}

----------------------------------------------------------------------------
(* Order of the steps of a payment event *)

IsPayment(id) == id \in EventIds /\ Event(id).type = "payment_intent.succeeded"

\* the ledger write of invocation i has returned the row of its payment intent
LedgerDone(i, pays, payId) ==
  /\ payId # 0
  /\ \E p \in pays : p.id = payId /\ p.stripe_payment_intent_id = Event(ev[i]).pi.id

\* C24: within one invocation of a payment event the submission update is
\* started only when createPaymentRecord has returned the payment row; the
\* notifier is entered only from the submission update that went through (from
\* the ledger write when the event names no submission); the final mark is
\* entered only from a notifier POST that was answered, or from the writes when
\* the notifier has nothing to post; the notifier and the final mark write
\* neither payments nor form_submissions, and after the succeeded mark the
\* invocation writes nothing at all.
C24_ProcessingOrder ==
  /\ [][\A i \in Invs :
         (pc'[i] = "sub_update" /\ pc[i] # "sub_update")
            => pc[i] = "ledger" /\ LedgerDone(i, payments', paymentId'[i])]_vars
  /\ [][\A i \in Invs :
         (pc'[i] = "notify" /\ pc[i] \notin {"notify", "notify_wait"})
            => /\ LedgerDone(i, payments', paymentId'[i])
               /\ IF Event(ev[i]).pi.form_submission_id # NULL
                    THEN /\ pc[i] = "sub_update"
                         /\ submissions' = UpdateSubmissionStatus(submissions,
                                             Event(ev[i]).pi.form_submission_id, "converted")
                    ELSE pc[i] = "ledger"]_vars
  /\ [][\A i \in Invs :
         (IsPayment(ev[i]) /\ pc'[i] = "mark_succeeded" /\ pc[i] # "mark_succeeded")
            => /\ LedgerDone(i, payments', paymentId'[i])
               /\ \/ pc[i] = "notify" /\ delivered'[ev[i]] > 0
                  \/ /\ ~NotifierPosts(Event(ev[i]))
                     /\ IF Event(ev[i]).pi.form_submission_id # NULL
                          THEN pc[i] = "sub_update" ELSE pc[i] = "ledger"]_vars
  /\ [][\A i \in Invs :
         (pc[i] \in {"notify", "notify_wait", "mark_succeeded"} /\ pc'[i] # pc[i])
            => UNCHANGED <<payments, nextPayId, submissions>>]_vars
  /\ [][\A i \in Invs :
         (pc[i] = "mark_succeeded" /\ pc'[i] # pc[i]) => UNCHANGED delivered]_vars
  /\ [][\A i \in Invs :
         (pc[i] = "returned" /\ pc'[i] # pc[i]) => UNCHANGED effects]_vars

\* the payment of the paid form went through all four steps: its row is in the
\* ledger, the submission is converted, the CRM has been told, the event is
\* succeeded
C24_Witness ==
  \E i \in Invs :
    /\ ev[i] = "evt_1" /\ pc[i] = "returned" /\ result[i].handled
    /\ LedgerDone(i, payments, paymentId[i])
    /\ \E u \in submissions : u.id = "sub_1" /\ u.status = "converted"
    /\ delivered["evt_1"] = 1
    /\ journal["evt_1"].status = "succeeded"

----------------------------------------------------------------------------
(* Retries of the notifier *)

InNotifier(i) == pc[i] \in {"notify", "notify_wait"}

\* C25: one call of the notifier makes at most three fetches (the loop index
\* stays within 0..2); a fetch that is answered ends the call, which returns; a
\* fetch that fails is followed by a wait and another fetch when it was the
\* first or the second, and by the raise of its error, without a wait, when it
\* was the third; and the call always comes to an end.
C25_BoundedRetries ==
  /\ [][\A i \in Invs :
         /\ attempt'[i] \in 0..2
         /\ attempt'[i] # 0 => pc'[i] \in {"notify", "notify_wait"}]_vars
  /\ [][\A i \in Invs :
         (pc[i] = "notify" /\ pc'[i] # pc[i])
            => \/ /\ pc'[i] = "mark_succeeded"
                  /\ delivered'[ev[i]] = delivered[ev[i]] + 1 \/ delivered[ev[i]] = 2
                  /\ attempt'[i] = 0 /\ err'[i] = err[i]
               \/ /\ pc'[i] = "notify_wait"
                  /\ attempt[i] < 2 /\ attempt'[i] = attempt[i]
                  /\ delivered' = delivered
               \/ /\ pc'[i] = "mark_failed"
                  /\ attempt[i] = 2
                  /\ err'[i] = NotifierError
                  /\ delivered' = delivered]_vars
  /\ [][\A i \in Invs :
         (pc[i] = "notify_wait" /\ pc'[i] # pc[i])
            => /\ pc'[i] = "notify"
               /\ attempt'[i] = attempt[i] + 1
               /\ delivered' = delivered]_vars
  /\ \A i \in Invs : InNotifier(i) ~> ~InNotifier(i)

\* a notifier call is at its third fetch, after two failed ones
C25_Witness ==
  \E i \in Invs : pc[i] = "notify" /\ attempt[i] = 2 /\ delivered[ev[i]] = 0

----------------------------------------------------------------------------
(* The notifier is per tenant *)

Blank(v) == v \in {NULL, "", " "}

\* a payment event the CRM is not told about: its site is not resinaro, or the
\* deployment lacks the webhook URL or the secret
Silent(id) ==
  /\ IsPayment(id)
  /\ \/ Event(id).pi.site \notin {"Resinaro", "resinaro"}
     \/ Blank(env.RESINARO_CRM_WEBHOOK_URL)
     \/ Blank(env.RESINARO_CRM_WEBHOOK_SECRET)

StoreErrors ==
  {PaymentWriteError("Failed to write payment record"),
   Error("form_submissions update failed"),
   Error("stripe_events update failed")}

\* C26: for a payment event of another site, or on a deployment without the
\* CRM URL or secret, the invocation never enters the notifier: no POST is
\* made for the event, no notifier error arises, and the step that completes the
\* business writes goes on to the final mark; when no store call fails, the
\* claimed invocation returns handled=true with the row succeeded.
C26_PerTenantNotifier ==
  /\ [](\A id \in EventIds : Silent(id) => delivered[id] = 0)
  /\ [](\A i \in Invs :
         Silent(ev[i])
            => /\ ~InNotifier(i) /\ attempt[i] = 0
               /\ pc[i] \in {"mark_failed", "raised"} /\ Claimed(i)
                    => err[i] \in StoreErrors)
  /\ [][\A i \in Invs :
         (Silent(ev[i]) /\ pc[i] \in {"ledger", "sub_update"} /\ pc'[i] # pc[i])
            => pc'[i] \in {"sub_update", "mark_succeeded", "mark_failed"}]_vars
  /\ [](\A i \in Invs :
         (~faults /\ Silent(ev[i]) /\ Claimed(i))
            => /\ pc[i] \in {"ledger", "sub_update", "mark_succeeded", "returned"}
               /\ pc[i] = "returned"
                    => /\ journal[ev[i]].status = "succeeded"
                       /\ result[i].handled
                       /\ http[i] = Ack(TRUE))

\* on a deployment without the webhook URL a payment of resinaro and a payment
\* of another site are both succeeded, and no POST has been made
C26_Witness ==
  /\ env.RESINARO_CRM_WEBHOOK_URL = NULL
  /\ journal["evt_1"].status = "succeeded"
  /\ journal["evt_6"].status = "succeeded"
  /\ \A id \in EventIds : delivered[id] = 0
  /\ \E i \in Invs : pc[i] = "returned" /\ result[i].handled

----------------------------------------------------------------------------
(* Fields of a journal row *)

\* C27: a stripe_events row has a non-null last_error only when its status is
\* failed and a non-null processed_at only when its status is succeeded or
\* failed: a processing row, inserted or re-claimed, has both null, a succeeded
\* row has no last_error, and every terminal mark sets processed_at (and, for
\* failed, last_error).
C27_JournalFields ==
  \A id \in EventIds :
    LET r == journal[id]
    IN /\ r.last_error # NULL => r.status = "failed"
       /\ r.processed_at # NULL => r.status \in {"succeeded", "failed"}
       /\ r.status = "processing" => r.processed_at = NULL /\ r.last_error = NULL
       /\ r.status = "succeeded" => r.processed_at # NULL /\ r.last_error = NULL
       /\ r.status = "failed" => r.processed_at # NULL /\ r.last_error # NULL
       /\ r.status = "absent" => r = NoRow

\* a row that had failed has been re-claimed and is processing with both
\* fields null again, next to a succeeded row
C27_Witness ==
  /\ \E i \in Invs :
       /\ claim[i] = "reclaimed" /\ seen[i] = "failed" /\ InCritical(i)
       /\ journal[ev[i]] = NewEventRow(Event(ev[i]))
  /\ \E id \in EventIds : journal[id].status = "succeeded"

----------------------------------------------------------------------------
(* Re-claimability after a failure *)

----------------------------------------------------------------------------
(* The audit snapshot of a payment *)

\* C29: whatever rawEvent a caller passes, the raw_event stored with a payments
\* row is bounded by MAX_RAW_EVENT_BYTES: it is null, the object as given when
\* it fits, or a replacement marked truncated=true whose kept members fit.
C29_ClampBounded ==
  \A u \in payments :
    /\ JsonBytes(u.raw_event.snapshot) <= MAX_RAW_EVENT_BYTES
    /\ u.raw_event.kind \in {"marker", "cut"} <=> u.raw_event.truncated

----------------------------------------------------------------------------
(* A payment without a submission *)

\* no form_submissions row has the id the event names, or it names none
NoSubmissionFor(id) ==
  \/ Event(id).pi.form_submission_id = NULL
  \/ \A u \in submissions : u.id # Event(id).pi.form_submission_id

MissingRef(id) == IsPayment(id) /\ ~Malformed(id) /\ NoSubmissionFor(id)

\* C30: for a valid payment event that names no submission the invocation goes
\* from the ledger write straight on, without a submission update; for one that
\* names an id no row has, the update matches zero rows, changes nothing and is
\* no error (only a failed store call is); when no call fails, the claimed
\* invocation records the payment row and returns handled=true with that row's
\* id and the stripe_events row succeeded.
C30_MissingSubmissionTolerated ==
  /\ [][\A i \in Invs :
         (MissingRef(ev[i]) /\ pc[i] = "ledger" /\ pc'[i] # pc[i]
            /\ Event(ev[i]).pi.form_submission_id = NULL)
           => pc'[i] \in {"notify", "mark_succeeded", "mark_failed"}]_vars
  /\ [][\A i \in Invs :
         (MissingRef(ev[i]) /\ pc[i] = "sub_update" /\ pc'[i] # pc[i])
            => /\ submissions' = submissions
               /\ \/ pc'[i] \in {"notify", "mark_succeeded"}
                  \/ /\ faults
                     /\ pc'[i] = "mark_failed"
                     /\ err'[i] = Error("form_submissions update failed")]_vars
  /\ [](\A i \in Invs :
         (~faults /\ MissingRef(ev[i]) /\ Claimed(i))
            => /\ pc[i] \in {"ledger", "sub_update", "notify", "mark_succeeded", "returned"}
               /\ pc[i] = "returned"
                    => /\ result[i].ok /\ result[i].handled
                       /\ result[i].paymentId = paymentId[i]
                       /\ LedgerDone(i, payments, paymentId[i])
                       /\ journal[ev[i]].status = "succeeded")

\* the payment that names the unknown submission sub_9 and the payment without
\* a submission are both recorded and succeeded; the only submission is as it was
C30_Witness ==
  /\ \E i \in Invs :
       /\ ev[i] = "evt_7" /\ pc[i] = "returned" /\ result[i].handled
       /\ LedgerDone(i, payments, paymentId[i])
  /\ \E p \in payments : p.form_submission_id = "sub_9"
  /\ \E p \in payments : p.stripe_payment_intent_id = "pi_3" /\ p.form_submission_id = NULL
  /\ journal["evt_7"].status = "succeeded"
  /\ journal["evt_6"].status = "succeeded"
  /\ submissions = {PaidSubmission}

----------------------------------------------------------------------------
(* The marking write of the catch block fails *)

\* C31: when the write that marks the event failed does not go through (the row
\* is not failed after the catch block), the invocation raises the error it
\* caught, unchanged, and the stripe_events row of the event is in processing.
C31_MarkFailureLeavesProcessing ==
  [][\A i \in Invs :
       (pc[i] = "mark_failed" /\ pc'[i] = "raised"
          /\ journal'[ev[i]].status # "failed")
          => /\ err'[i] = err[i]
             /\ err[i] # NoErr
             /\ journal'[ev[i]].status = "processing"]_vars

----------------------------------------------------------------------------
(* Errors of the claim phase *)

\* the awaits of claimStripeEvent
ClaimPcs == {"claim_insert", "claim_fetch", "claim_update"}

\* what handleStripeEvent throws when claimStripeEvent fails
ClaimErrors ==
  {Error("stripe_events insert failed"), Error("stripe_events fetch failed"),
   Error("stripe_event_missing_after_duplicate"), Error("stripe_events reclaim failed")}

\* C32: an error of the claim phase arises only at an await of claimStripeEvent,
\* and the step that raises it throws straight to the caller: the invocation
\* holds no claim, never enters the catch block (the journal is not marked), and
\* stripe_events, payments, form_submissions and the CRM are left as they were;
\* the invocation then stays raised until its slot is freed.
C32_ClaimErrorsNoSideEffects ==
  /\ [][\A i \in Invs :
          (err'[i] \in ClaimErrors /\ err'[i] # err[i])
             => /\ pc[i] \in ClaimPcs
                /\ pc'[i] = "raised"
                /\ ~Claimed(i)'
                /\ paymentId'[i] = 0
                /\ journal' = journal
                /\ payments' = payments
                /\ submissions' = submissions
                /\ delivered' = delivered]_vars
  /\ [][\A i \in Invs :
          (pc[i] = "raised" /\ err[i] \in ClaimErrors /\ pc'[i] # pc[i])
             => pc'[i] = "idle"]_vars

\* a re-claim update failed: the invocation raised, the row is still failed and
\* no payment was written
C32_Witness ==
  \E i \in Invs :
    /\ pc[i] = "raised"
    /\ err[i] = Error("stripe_events reclaim failed")
    /\ ~Claimed(i)
    /\ journal[ev[i]].status = "failed"
    /\ Event(ev[i]).type = "payment_intent.succeeded"
    /\ payments = {}

----------------------------------------------------------------------------
(* The deduped flag *)

\* C33: a result is returned only after a claim or for a replay of a succeeded
\* event, and its deduped flag is false exactly for the invocation whose claim
\* inserted the stripe_events row (it started on an event without a row); it is
\* true for an invocation that re-claimed a failed row, whatever that invocation
\* wrote, and for the replay of a succeeded event, which is not handled.
C33_DedupedIffNotInserted ==
  \A i \in Invs :
    pc[i] = "returned"
      => /\ claim[i] \in {"inserted", "reclaimed", "already_succeeded"}
         /\ result[i].ok
         /\ result[i].deduped <=> claim[i] # "inserted"
         /\ ~result[i].deduped => seen[i] = "absent"
         /\ seen[i] \in {"failed", "succeeded"} => result[i].deduped
         /\ claim[i] = "already_succeeded" => result[i] = DedupedResult

\* the first invocation of evt_1 inserted the row and failed at the ledger write;
\* the second re-claimed the failed row, created the only payment row and
\* returned handled=true, deduped=true
C33_Witness ==
  /\ started = 2
  /\ pc[1] = "raised" /\ ev[1] = "evt_1" /\ claim[1] = "inserted"
  /\ err[1] = PaymentWriteError("Failed to write payment record")
  /\ pc[2] = "returned" /\ ev[2] = "evt_1" /\ claim[2] = "reclaimed"
  /\ result[2].handled /\ result[2].deduped
  /\ \E p \in payments : payments = {p} /\ p.id = result[2].paymentId

----------------------------------------------------------------------------
(* Reachability of a payments row by either Stripe id *)

\* C34: a payments row that stores a payment-intent id and a checkout-session
\* id stores a checkout-session id after every later step: no createPaymentRecord
\* call leaves the row without one.
C34_SessionIdKept ==
  [][\A u \in payments :
       (u.stripe_payment_intent_id # NULL /\ u.stripe_checkout_session_id # NULL)
          => \E v \in payments' :
               /\ v.id = u.id
               /\ v.stripe_checkout_session_id # NULL]_vars

----------------------------------------------------------------------------
(* Conversion and the status of the submission *)

\* form_submissions_status_check, and the status enum of createFormSubmission
SubmissionStatuses == {"new", "pending_payment", "converted", "spam", "error"}

\* The submission sub_1 that the payment events reference may be in any status
\* createFormSubmission can have written
InitStatuses ==
  /\ journal = [id \in EventIds |-> NoRow]
  /\ payments = {}
  /\ submissions \in {{[PaidSubmission EXCEPT !.status = s]} : s \in SubmissionStatuses}
  /\ nextPayId = 1
  /\ nextSubId = 2
  /\ InitLocals
  /\ InitEnv
  /\ dcLeft = 0
  /\ fcLeft = 0

SpecStatuses == InitStatuses /\ [][NextTenant]_vars

\* C35: a form_submissions row becomes converted only from pending_payment: a
\* row that is new, spam or error is not changed by the processing of an event
\* that references it.
C35_ConvertedOnlyFromPending ==
  [][\A u \in submissions : \A v \in submissions' :
       (v.id = u.id /\ v # u)
          => u.status = "pending_payment" /\ v.status = "converted"]_vars

----------------------------------------------------------------------------
(* Retries of a paid form *)

\* the call of caller c has returned a result
PaidReturned(c) == pfPc[c] = "idle" /\ pfOut[c].kind = "row"

\* the form_submissions rows that hold the key caller c derived
RowsOfKey(c) == {u \in submissions : SameKey(u, FormRowOf(fcIn[c]))}

\* C36: two calls of handleSubmitPaidForm that returned for the same request
\* derived the same submissionKey, return the same submissionId, that key is held
\* by a single form_submissions row, and both used the Stripe idempotency key
\* pi_<submissionKey>; and whenever a PaymentIntent is created, the
\* form_submissions row its metadata names, with the key it was created under,
\* is already written.
C36_PaidRetriesIdempotent ==
  /\ [][(\A c, d \in FormCallers :
           (PaidReturned(c) /\ PaidReturned(d) /\ pfIn[c] = pfIn[d])
              => /\ fcIn[c].submissionKey = fcIn[d].submissionKey
                 /\ pfOut[c].submissionId = pfOut[d].submissionId
                 /\ \E u \in submissions :
                      RowsOfKey(c) = {u} /\ u.id = pfOut[c].submissionId
                 /\ pfOut[c].stripeIdempotencyKey = "pi_" \o fcIn[c].submissionKey
                 /\ pfOut[d].stripeIdempotencyKey = pfOut[c].stripeIdempotencyKey)']_vars
  /\ [][\A p \in intents' \ intents :
          \E u \in submissions :
            /\ u.id = p.params.form_submission_id
            /\ p.idempotency_key = "pi_" \o u.submission_key]_vars

\* two calls without a client key, for the same request, both returned: the
\* second was deduplicated, one row holds the derived key, one PaymentIntent
\* was created
C36_Witness ==
  /\ PaidReturned(1) /\ PaidReturned(2)
  /\ pfIn[1] = PaidBody(PayloadAp1, 4000, NULL)
  /\ pfIn[2] = pfIn[1]
  /\ fcOut[1].deduped # fcOut[2].deduped
  /\ pfOut[1].submissionId = pfOut[2].submissionId
  /\ Cardinality(RowsOfKey(1)) = 1
  /\ Cardinality(intents) = 1

----------------------------------------------------------------------------
(* Requests through the fetch wrapper *)

\* Requests of every method through makeFetch, one at a time; each underlying
\* fetch settles (the timeout aborts one that hangs) and each sleep timer fires
NextFetch ==
  \/ \E m \in Methods : FetchCall(m)
  \/ FetchSettle
  \/ FetchWake

FairFetch == WF_vars(FetchSettle) /\ WF_vars(FetchWake)

SpecFetch == Init /\ [][NextFetch]_vars /\ FairFetch

FetchReturned == fwPc = "idle" /\ fwOut.kind # "none"

\* C37: a request through makeFetch whose method is not GET, HEAD or OPTIONS is
\* sent exactly once, whatever the response status or network error; a GET,
\* HEAD or OPTIONS request is sent at most MAX_RETRIES + 1 = 3 times; and the
\* loop always ends, with a response or with a supabase_fetch_failed error.
C37_RetryOnlySafeMethods ==
  /\ [][/\ fwSent' <= 3
        /\ MethodOf(fwMethod') \notin {"GET", "HEAD", "OPTIONS"} => fwSent' <= 1
        /\ FetchReturned' =>
             /\ fwSent' >= 1
             /\ \/ fwOut'.kind = "res"
                \/ fwOut'.kind = "throw" /\ fwOut'.message = "supabase_fetch_failed"]_vars
  /\ (fwPc # "idle") ~> FetchReturned

\* a POST answered 503 has returned that response after a single send
C37_Witness ==
  /\ FetchReturned
  /\ fwMethod = "post"
  /\ fwSent = 1
  /\ fwOut.kind = "res"
  /\ fwOut.status = 503

----------------------------------------------------------------------------
(* Invocations of the Lambda entry point *)

\* Invocations of handler in one container, overlapping or one after another,
\* whatever the container's environment and whatever the secret's answer
InitBoot ==
  /\ InitTables
  /\ InitLocals
  /\ faults = TRUE
  /\ env \in BootEnvs
  /\ dcLeft = 0
  /\ fcLeft = 0

NextBoot ==
  \/ \E i \in Invs : BootInvoke(i)
  \/ BootSettle
  \/ \E i \in Invs : BootResume(i)
  \/ \E i \in Invs : BootFinish(i)

SpecBoot == InitBoot /\ [][NextBoot]_vars

\* C38: however many invocations of handler start, overlapping or in sequence,
\* the secret is fetched at most once, the core handler is only ever invoked
\* once the bootstrap has completed, and no environment variable that is
\* already non-empty is overwritten.
C38_BootstrapOnce ==
  [][/\ secretFetches' <= 1
     /\ \A i \in Invs : bhPc'[i] = "core" => bootstrapPromise' = "fulfilled"
     /\ \A k \in DOMAIN env : isNonEmptyString(env[k]) => env'[k] = env[k]]_vars

\* two overlapping invocations are both in the core handler after one fetch of
\* the secret, which filled the missing service role key and left the URL of
\* the environment alone
C38_Witness ==
  /\ \A i \in Invs : bhPc[i] = "core"
  /\ secretFetches = 1
  /\ env.SUPABASE_URL = "https://db.env"
  /\ env.SUPABASE_SERVICE_ROLE_KEY = "srk_secret"

====
